---- MODULE Spec2Model ----
(***************************************************************************)
(* Orchestration core of the multi-agent document assistant:               *)
(*   - MultiAgentOrchestrator (sessions, routing, specialists)             *)
(*   - CoordinatorAgent.route_query (fast path, model path, fallback)      *)
(*   - AgentRegistry (single agent and pipeline processing)                *)
(*   - DocumentRouter / PDFProcessor (classification, question generation, *)
(*     per-document extraction, comparison), AgentManager helpers          *)
(* Text whose characters matter (queries, prompts, document bodies) is a   *)
(* sequence of one-character strings; opaque text is a TLA+ string.        *)
(***************************************************************************)
EXTENDS Integers, Sequences, FiniteSets, TLC

VARIABLES session_context, coordinator_agent, agents, clock, last, ok_log,
          req, fb, fn, am, tasks

vars == <<session_context, coordinator_agent, agents, clock, last, ok_log, req, fb, fn, am, tasks>>

orchVars == <<session_context, coordinator_agent, agents, clock, last, ok_log>>

-----------------------------------------------------------------------------
(* Bounds of the model *)

\* operations performed on the orchestrator in one behaviour
MaxOps == 3

\* documents handed to one comparison request
MaxDocs == 3

\* stand-in for AppConfig.MAX_CONTENT_LENGTH (80000 characters in config.py)
MAX_CONTENT_LENGTH == 8

\* stand-in for the 500-character prefix of the fallback summary
SUMMARY_LENGTH == 4

\* AppConfig.MAX_QUESTIONS
MAX_QUESTIONS == 20

\* AppConfig.MAX_EXTRACTIONS
MAX_EXTRACTIONS == 5

-----------------------------------------------------------------------------
(* Character strings: str.lower(), the "in" substring test, slicing *)

UpperChars == <<"A","B","C","D","E","F","G","H","I","J","K","L","M","N","O","P","Q","R","S","T","U","V","W","X","Y","Z">>

LowerChars == <<"a","b","c","d","e","f","g","h","i","j","k","l","m","n","o","p","q","r","s","t","u","v","w","x","y","z">>

\* the lower-case letter of each upper-case letter
LowerMap == [c \in {UpperChars[i] : i \in 1..26} |->
                LowerChars[CHOOSE i \in 1..26 : UpperChars[i] = c]]

LowerChar(c) == IF c \in DOMAIN LowerMap THEN LowerMap[c] ELSE c

\* s.lower()
Lower(s) == [i \in 1..Len(s) |-> LowerChar(s[i])]

\* k in s
IsSubstr(k, s) ==
    \E i \in 1..(Len(s) - Len(k) + 1) :
        s[i] = k[1] /\ SubSeq(s, i, i + Len(k) - 1) = k

\* s[:n]
Take(s, n) == SubSeq(s, 1, IF Len(s) < n THEN Len(s) ELSE n)

\* sep.join(parts)
RECURSIVE Join(_, _)
Join(sep, parts) ==
    IF Len(parts) = 0 THEN <<>>
    ELSE IF Len(parts) = 1 THEN parts[1]
    ELSE parts[1] \o sep \o Join(sep, Tail(parts))

Digits == {"0","1","2","3","4","5","6","7","8","9"}

MathOps == {"+","-","*","/","^"}

Spaces == {" "}


kw_lease == <<"l","e","a","s","e">>

kw_rent == <<"r","e","n","t">>

kw_tenant == <<"t","e","n","a","n","t">>

kw_landlord == <<"l","a","n","d","l","o","r","d">>

kw_contract == <<"c","o","n","t","r","a","c","t">>

kw_agreement == <<"a","g","r","e","e","m","e","n","t">>

kw_terms == <<"t","e","r","m","s">>

kw_conditions == <<"c","o","n","d","i","t","i","o","n","s">>

kw_policy == <<"p","o","l","i","c","y">>

kw_procedure == <<"p","r","o","c","e","d","u","r","e">>

kw_guidelines == <<"g","u","i","d","e","l","i","n","e","s">>

kw_rules == <<"r","u","l","e","s">>

kw_compare == <<"c","o","m","p","a","r","e">>

kw_difference == <<"d","i","f","f","e","r","e","n","c","e">>

kw_contrast == <<"c","o","n","t","r","a","s","t">>

kw_versus == <<"v","e","r","s","u","s">>

kw_vs == <<"v","s">>

kw_between == <<"b","e","t","w","e","e","n">>

kw_generate_question == <<"g","e","n","e","r","a","t","e"," ","q","u","e","s","t","i","o","n">>

kw_create_question == <<"c","r","e","a","t","e"," ","q","u","e","s","t","i","o","n">>

kw_extract == <<"e","x","t","r","a","c","t">>

kw_find == <<"f","i","n","d">>

kw_get_information == <<"g","e","t"," ","i","n","f","o","r","m","a","t","i","o","n">>

kw_what_is == <<"w","h","a","t"," ","i","s">>

kw_tell_me_about == <<"t","e","l","l"," ","m","e"," ","a","b","o","u","t">>

kw_solve == <<"s","o","l","v","e">>

kw_equation == <<"e","q","u","a","t","i","o","n">>

kw_calculate == <<"c","a","l","c","u","l","a","t","e">>

kw_derivative == <<"d","e","r","i","v","a","t","i","v","e">>

kw_integral == <<"i","n","t","e","g","r","a","l">>

q_math == <<"W","h","a","t"," ","i","s"," ","5"," ","+"," ","3","?">>

q_compare == <<"C","o","m","p","a","r","e"," ","t","h","e","s","e"," ","d","o","c","u","m","e","n","t","s">>

q_genq == <<"G","e","n","e","r","a","t","e"," ","q","u","e","s","t","i","o","n","s">>

q_extract == <<"E","x","t","r","a","c","t"," ","t","h","e"," ","d","a","t","e","s">>

q_hello == <<"H","e","l","l","o"," ","t","h","e","r","e">>

q_cmp_genq == <<"C","o","m","p","a","r","e"," ","a","n","d"," ","c","r","e","a","t","e"," ","q","u","e","s","t","i","o","n","s">>

q_math_cmp == <<"C","o","m","p","a","r","e"," ","2"," ","+"," ","2"," ","v","s"," ","5">>

q_solve == <<"S","o","l","v","e"," ","t","h","i","s"," ","e","q","u","a","t","i","o","n">>

q_find_genq == <<"F","i","n","d"," ","a","n","d"," ","g","e","n","e","r","a","t","e"," ","q","u","e","s","t","i","o","n","s">>

q_what_diff == <<"W","h","a","t"," ","i","s"," ","t","h","e"," ","d","i","f","f","e","r","e","n","c","e">>

q_versus == <<"L","e","a","s","e"," ","v","e","r","s","u","s"," ","l","o","a","n">>

p_lease == <<"C","o","m","p","a","r","e"," ","t","h","e","s","e"," ","l","e","a","s","e"," ","a","g","r","e","e","m","e","n","t","s">>

p_contract == <<"C","o","m","p","a","r","e"," ","t","h","e"," ","C","o","n","t","r","a","c","t","s">>

p_policy == <<"C","h","e","c","k"," ","P","O","L","I","C","Y">>

p_plain == <<"C","o","m","p","a","r","e"," ","t","h","e","m">>

d_rent == <<"r","e","n","t"," ","l","a","n","d","l","o","r","d">>

d_terms == <<"T","e","r","m","s"," ","a","p","p","l","y">>

d_rules == <<"h","o","u","s","e"," ","R","u","l","e","s">>

d_parent == <<"a"," ","p","a","r","e","n","t">>

d_plain == <<"a","b","c","d","e","f","g"," ","h","i","j">>

d_empty == <<>>

-----------------------------------------------------------------------------
(* CoordinatorAgent: routing *)

AgentType == {"general_knowledge", "document_comparison", "question_generator",
              "information_extractor", "comparison_analyst"}

None == "None"

\* re.search(r'\d+\s*[\+\-\*\/\^]\s*\d+', s)
MatchArith(s) ==
    \E i \in 1..Len(s) :
        /\ s[i] \in Digits
        /\ \E j \in (i+1)..Len(s) :
              /\ s[j] \in MathOps
              /\ \A m \in (i+1)..(j-1) : s[m] \in Spaces
              /\ \E k \in (j+1)..Len(s) :
                    /\ s[k] \in Digits
                    /\ \A m \in (j+1)..(k-1) : s[m] \in Spaces

\* re.search(r'solve.*equation', s)
MatchSolveEquation(s) ==
    \E i \in 1..(Len(s) - Len(kw_solve) + 1) :
        /\ SubSeq(s, i, i + Len(kw_solve) - 1) = kw_solve
        /\ \E j \in (i + Len(kw_solve))..(Len(s) - Len(kw_equation) + 1) :
              SubSeq(s, j, j + Len(kw_equation) - 1) = kw_equation

\* re.search(r'x\s*=', s)
MatchXEquals(s) ==
    \E i \in 1..Len(s) :
        /\ s[i] = "x"
        /\ \E j \in (i+1)..Len(s) :
              /\ s[j] = "="
              /\ \A m \in (i+1)..(j-1) : s[m] \in Spaces

\* any(re.search(pattern, query_lower) for pattern in math_patterns)
MathPattern(s) ==
    \/ MatchArith(s)
    \/ MatchSolveEquation(s)
    \/ IsSubstr(kw_calculate, s)
    \/ MatchXEquals(s)
    \/ IsSubstr(kw_derivative, s)
    \/ IsSubstr(kw_integral, s)

comparison_keywords == {kw_compare, kw_difference, kw_contrast, kw_versus, kw_vs, kw_between}

extract_keywords == {kw_extract, kw_find, kw_get_information, kw_what_is, kw_tell_me_about}

fallback_compare_words == {kw_compare, kw_contrast, kw_difference}

\* context.get(key) of a context mapping (None when the key is absent)
CtxFlag(ctx, key) == key \in ctx.has /\ ctx[key] = TRUE

\* context and (context.get("documents_uploaded") or context.get("has_documents"))
DocumentsPresent(ctx) ==
    /\ ctx.has # {}
    /\ (CtxFlag(ctx, "documents_uploaded") \/ CtxFlag(ctx, "has_documents"))

\* The texts a query may have, and the tests _quick_route_analysis and
\* _fallback_routing make on query.lower(), evaluated once per text.
QueryTexts ==
    {q_math, q_compare, q_genq, q_extract, q_hello, q_cmp_genq,
     q_math_cmp, q_solve, q_find_genq, q_what_diff, q_versus}

QueryTests ==
    [query \in QueryTexts |->
        LET query_lower == Lower(query) IN
        [math       |-> MathPattern(query_lower),
         comparison |-> \E k \in comparison_keywords : IsSubstr(k, query_lower),
         question   |-> IsSubstr(kw_generate_question, query_lower)
                            \/ IsSubstr(kw_create_question, query_lower),
         extract    |-> \E k \in extract_keywords : IsSubstr(k, query_lower),
         fallback_compare |-> \E w \in fallback_compare_words : IsSubstr(w, query_lower)]]

Decision(t, why, pipe, conf) ==
    [agent_type |-> t, reasoning |-> why, pipeline |-> pipe, confidence |-> conf]

NoRoute == [agent_type |-> None, reasoning |-> None, pipeline |-> <<>>, confidence |-> None]

\* variant of _quick_route_analysis: the mathematical patterns are not tried
quick_without_math(query, ctx) ==
    IF QueryTests[query].comparison /\ DocumentsPresent(ctx)
    THEN Decision("document_comparison", "Document comparison request detected",
                  <<"information_extractor", "document_comparison", "comparison_analyst">>,
                  "high")
    ELSE IF QueryTests[query].question
    THEN Decision("question_generator", "Question generation request detected",
                  <<"information_extractor", "question_generator">>, "high")
    ELSE IF QueryTests[query].extract /\ DocumentsPresent(ctx)
    THEN Decision("information_extractor", "Information extraction from documents detected",
                  <<"information_extractor">>, "high")
    ELSE NoRoute

\* variant of _quick_route_analysis: question generation is tried before comparison
quick_question_first(query, ctx) ==
    IF QueryTests[query].math
    THEN Decision("general_knowledge", "Mathematical calculation or equation detected",
                  <<>>, "high")
    ELSE IF QueryTests[query].question
    THEN Decision("question_generator", "Question generation request detected",
                  <<"information_extractor", "question_generator">>, "high")
    ELSE IF QueryTests[query].comparison /\ DocumentsPresent(ctx)
    THEN Decision("document_comparison", "Document comparison request detected",
                  <<"information_extractor", "document_comparison", "comparison_analyst">>,
                  "high")
    ELSE IF QueryTests[query].extract /\ DocumentsPresent(ctx)
    THEN Decision("information_extractor", "Information extraction from documents detected",
                  <<"information_extractor">>, "high")
    ELSE NoRoute

_quick_route_analysis(query, ctx) ==
    IF QueryTests[query].math
    THEN Decision("general_knowledge", "Mathematical calculation or equation detected",
                  <<>>, "high")
    ELSE IF QueryTests[query].comparison /\ DocumentsPresent(ctx)
    THEN Decision("document_comparison", "Document comparison request detected",
                  <<"information_extractor", "document_comparison", "comparison_analyst">>,
                  "high")
    ELSE IF QueryTests[query].question
    THEN Decision("question_generator", "Question generation request detected",
                  <<"information_extractor", "question_generator">>, "high")
    ELSE IF QueryTests[query].extract /\ DocumentsPresent(ctx)
    THEN Decision("information_extractor", "Information extraction from documents detected",
                  <<"information_extractor">>, "high")
    ELSE NoRoute

\* A coordinator response is a sequence of lines; a line "TAG: value" is
\* [tag, value] and any other line has tag "text".  The value of a ROUTE_TO
\* line is kept as written (strip().lower() is applied by the parser).
RouteLine(tag, value) == [tag |-> tag, value |-> value]

\* the response _get_ai_routing_decision returns
StubRoutingResponse ==
    << RouteLine("ROUTE_TO", "GENERAL_KNOWLEDGE"),
       RouteLine("REASONING", "Fallback routing"),
       RouteLine("PIPELINE", "[]") >>

\* line.split(":", 1)[1].strip().lower() for the agent names a response may carry
LowerName(v) ==
    CASE v = "GENERAL_KNOWLEDGE"     -> "general_knowledge"
      [] v = "DOCUMENT_COMPARISON"   -> "document_comparison"
      [] v = "QUESTION_GENERATOR"    -> "question_generator"
      [] v = "INFORMATION_EXTRACTOR" -> "information_extractor"
      [] v = "COMPARISON_ANALYST"    -> "comparison_analyst"
      [] OTHER -> v

RECURSIVE ParseLines(_, _)
ParseLines(lines, result) ==
    IF Len(lines) = 0 THEN result
    ELSE LET line == Head(lines)
             next ==
               IF line.tag = "ROUTE_TO"
               THEN IF LowerName(line.value) \in AgentType
                    THEN [result EXCEPT !.agent_type = LowerName(line.value)]
                    ELSE result
               ELSE IF line.tag = "REASONING"
               THEN [result EXCEPT !.reasoning = line.value]
               ELSE IF line.tag = "PIPELINE"
               THEN IF line.value # "" /\ line.value # "[]"
                    THEN [result EXCEPT !.pipeline = <<>>]
                    ELSE result
               ELSE result
         IN ParseLines(Tail(lines), next)

_parse_routing_response(response) ==
    ParseLines(response, Decision("general_knowledge", "Default routing", <<>>, "medium"))

_fallback_routing(query, ctx) ==
    IF ctx.has # {} /\ CtxFlag(ctx, "documents_uploaded")
    THEN IF QueryTests[query].fallback_compare
         THEN Decision("document_comparison", "Fallback: Document comparison keywords detected",
                       <<"information_extractor", "document_comparison">>, "medium")
         ELSE Decision("information_extractor",
                       "Fallback: Documents available, defaulting to extraction",
                       <<"information_extractor">>, "medium")
    ELSE Decision("general_knowledge",
                  "Fallback: No documents, defaulting to general knowledge", <<>>, "low")

\* variant of route_query: the model path is taken whether or not self.agent is set
route_query_without_agent_test(query, ctx, agent, response, modelFails) ==
    LET quick_route == _quick_route_analysis(query, ctx) IN
    IF quick_route # NoRoute THEN quick_route
    ELSE IF ~modelFails THEN _parse_routing_response(response)
    ELSE _fallback_routing(query, ctx)

\* route_query for a text query; `agent` is self.agent being set, `response`
\* the text the coordinator model returns, `modelFails` the model call raising.
route_query(query, ctx, agent, response, modelFails) ==
    LET quick_route == _quick_route_analysis(query, ctx) IN
    IF quick_route # NoRoute THEN quick_route
    ELSE IF agent /\ ~modelFails THEN _parse_routing_response(response)
    ELSE _fallback_routing(query, ctx)

\* the number of model calls route_query issues (_get_ai_routing_decision is
\* awaited when no fast rule decided and self.agent is set)
route_query_calls(query, ctx, agent) ==
    IF _quick_route_analysis(query, ctx) # NoRoute THEN 0
    ELSE IF agent THEN 1
    ELSE 0

-----------------------------------------------------------------------------
(* AgentRegistry: specialists *)

\* the registry _initialize_agents builds: key -> the agent's own agent_type
RegisteredAgents ==
    [k \in AgentType |-> IF k = "general_knowledge" THEN "knowledge_agent"
                         ELSE "document_agent"]

EmptyRegistry == [k \in {} |-> "document_agent"]

\* process_with_agent: the "not found" result, or BaseSpecialistAgent.process,
\* which answers with status "error" when its own work raises (`fails`)
process_with_agent(registry, agent_type, query, fails) ==
    IF agent_type \notin DOMAIN registry
    THEN [agent_type |-> agent_type,
          response |-> [fmt |-> "not_found", who |-> agent_type, query |-> <<>>],
          status |-> "error"]
    ELSE IF fails
    THEN [agent_type |-> registry[agent_type],
          response |-> [fmt |-> "error_in", who |-> registry[agent_type], query |-> <<>>],
          status |-> "error"]
    ELSE [agent_type |-> registry[agent_type],
          response |-> [fmt |-> "processed", who |-> registry[agent_type], query |-> query],
          status |-> "success"]

\* the context a pipeline works on: the keys it holds and the two the loop folds
PipelineContext(has, previous_results, last_agent_result) ==
    [has |-> has, previous_results |-> previous_results,
     last_agent_result |-> last_agent_result]

NoStageResult == [agent_type |-> None, response |-> None, status |-> None]

\* results, current_context and the invocations made so far
LoopState(results, current_context, invocations) ==
    [results |-> results, current_context |-> current_context, invocations |-> invocations]

PipelineStart(has) == LoopState(<<>>, PipelineContext(has, <<>>, NoStageResult), <<>>)

\* variant of PipelineLoop: the context is folded before the result is appended
RECURSIVE loop_folding_stale_results(_, _, _, _, _)
loop_folding_stale_results(registry, pipeline, query, fails, st) ==
    IF Len(pipeline) = 0 THEN st
    ELSE LET result == process_with_agent(registry, Head(pipeline), query, fails)
             current_context ==
                 [st.current_context EXCEPT
                    !.has = @ \cup {"previous_results", "last_agent_result"},
                    !.previous_results = st.results,
                    !.last_agent_result = result]
         IN loop_folding_stale_results(registry, Tail(pipeline), query, fails,
                LoopState(Append(st.results, result), current_context,
                          Append(st.invocations,
                                 [agent_type |-> Head(pipeline),
                                  context |-> st.current_context])))

\* variant of PipelineLoop: the loop ends at the first stage that reports an error
RECURSIVE loop_stopping_at_error(_, _, _, _, _)
loop_stopping_at_error(registry, pipeline, query, fails, st) ==
    IF Len(pipeline) = 0 THEN st
    ELSE LET result == process_with_agent(registry, Head(pipeline), query, fails)
             results == Append(st.results, result)
             current_context ==
                 [st.current_context EXCEPT
                    !.has = @ \cup {"previous_results", "last_agent_result"},
                    !.previous_results = results,
                    !.last_agent_result = result]
             next == LoopState(results, current_context,
                               Append(st.invocations,
                                      [agent_type |-> Head(pipeline),
                                       context |-> st.current_context]))
         IN IF result.status = "error" THEN next
            ELSE loop_stopping_at_error(registry, Tail(pipeline), query, fails, next)

\* the loop of process_pipeline: each stage is handed current_context, its
\* result is appended, then folded into current_context
RECURSIVE PipelineLoop(_, _, _, _, _)
PipelineLoop(registry, pipeline, query, fails, st) ==
    IF Len(pipeline) = 0 THEN st
    ELSE LET result == process_with_agent(registry, Head(pipeline), query, fails)
             results == Append(st.results, result)
             current_context ==
                 [st.current_context EXCEPT
                    !.has = @ \cup {"previous_results", "last_agent_result"},
                    !.previous_results = results,
                    !.last_agent_result = result]
         IN PipelineLoop(registry, Tail(pipeline), query, fails,
                LoopState(results, current_context,
                          Append(st.invocations,
                                 [agent_type |-> Head(pipeline),
                                  context |-> st.current_context])))

\* the keys the loop adds to the context it was handed
pipeline_context_keys(pipeline) ==
    IF Len(pipeline) = 0 THEN {} ELSE {"previous_results", "last_agent_result"}

\* str.upper() for the agent names a result may carry
UpperName(v) ==
    CASE v = "knowledge_agent"       -> "KNOWLEDGE_AGENT"
      [] v = "document_agent"        -> "DOCUMENT_AGENT"
      [] v = "general_knowledge"     -> "GENERAL_KNOWLEDGE"
      [] v = "document_comparison"   -> "DOCUMENT_COMPARISON"
      [] v = "question_generator"    -> "QUESTION_GENERATOR"
      [] v = "information_extractor" -> "INFORMATION_EXTRACTOR"
      [] v = "comparison_analyst"    -> "COMPARISON_ANALYST"
      [] v = "nobody"                -> "NOBODY"
      [] OTHER -> v

\* variant of _combine_pipeline_results: only the last stage is reported
combine_last_only(results, query) ==
    IF Len(results) = 0 THEN [fmt |-> "no_results", who |-> None, query |-> <<>>]
    ELSE results[Len(results)].response

_combine_pipeline_results(results, query) ==
    IF Len(results) = 0 THEN [fmt |-> "no_results", who |-> None, query |-> <<>>]
    ELSE IF Len(results) = 1 THEN results[1].response
    ELSE [fmt |-> "combined", who |-> None, query |-> query,
          parts |-> [i \in 1..Len(results) |->
                        [index |-> i, heading |-> UpperName(results[i].agent_type),
                         response |-> results[i].response]]]

process_pipeline(registry, pipeline, query, fails) ==
    LET results == PipelineLoop(registry, pipeline, query, fails, PipelineStart({})).results
    IN
    [agent_type |-> "pipeline",
     pipeline |-> pipeline,
     response |-> _combine_pipeline_results(results, query),
     individual_results |-> results,
     status |-> "success"]

-----------------------------------------------------------------------------
(* MultiAgentOrchestrator: sessions *)

SessionIds == {"s1", "s2"}

DefaultKeys == {"session_id", "history", "documents_uploaded", "previous_agent"}

\* A mapping is a record of values plus `has`, the keys that are present.
Mapping(has, history, docs, prev, info, hasDocs) ==
    [has |-> has, history |-> history, documents_uploaded |-> docs,
     previous_agent |-> prev, document_info |-> info, has_documents |-> hasDocs]

DefaultSession == Mapping(DefaultKeys, <<>>, FALSE, None, None, FALSE)

EmptyMapping == Mapping({}, <<>>, FALSE, None, None, FALSE)

\* self.session_context after the lazy creation of _get_session_context
_get_session_context(sc, sid) ==
    IF sid \in DOMAIN sc THEN sc
    ELSE [x \in DOMAIN sc \cup {sid} |-> IF x = sid THEN DefaultSession ELSE sc[x]]

\* The caller's context argument: None, a mapping, or a value that is no mapping.
NoContext == [kind |-> "none", has |-> {}, documents_uploaded |-> FALSE, has_documents |-> FALSE]

MapContext(has, docs, hasDocs) ==
    [kind |-> "map", has |-> has, documents_uploaded |-> docs, has_documents |-> hasDocs]

BadContext == [kind |-> "bad", has |-> {}, documents_uploaded |-> FALSE, has_documents |-> FALSE]

CallerContexts ==
    { NoContext,
      MapContext({"interface"}, FALSE, FALSE),
      MapContext({"documents_uploaded"}, TRUE, FALSE),
      MapContext({"has_documents"}, FALSE, TRUE),
      BadContext }

\* `if context:` of process_query
Truthy(context) == context.kind = "bad" \/ (context.kind = "map" /\ context.has # {})

\* session_context.update(context) on the copy
Update(copy, context) ==
    [copy EXCEPT
       !.has = @ \cup context.has,
       !.documents_uploaded =
           IF "documents_uploaded" \in context.has THEN context.documents_uploaded ELSE @,
       !.has_documents =
           IF "has_documents" \in context.has THEN context.has_documents ELSE @]

\* variant of merged_session_context: the caller's context is merged into the
\* stored session itself
merged_into_stored_session(sc, sid, context) ==
    LET sc1 == _get_session_context(sc, sid)
        ctx == IF Truthy(context) THEN Update(sc1[sid], context) ELSE sc1[sid]
    IN [stored |-> [sc1 EXCEPT ![sid] = ctx], ctx |-> ctx]

\* process_query, the two statements before the try: the copy of the stored
\* session, updated with the caller's context; the store keeps its own mapping
merged_session_context(sc, sid, context) ==
    LET sc1 == _get_session_context(sc, sid)
        ctx == IF Truthy(context) THEN Update(sc1[sid], context) ELSE sc1[sid]
    IN [stored |-> sc1, ctx |-> ctx]

Interaction(t, routing_decision, result) ==
    [timestamp |-> t, routing_decision |-> routing_decision, result |-> result]

\* variant of _update_session_context: the history is overwritten, not extended
update_overwriting_history(sc, sid, routing_decision, result, now) ==
    LET sc1 == _get_session_context(sc, sid) IN
    [sc1 EXCEPT ![sid] =
        [@ EXCEPT !.has = @ \cup {"history", "previous_agent"},
                  !.history = <<Interaction(now, routing_decision, result)>>,
                  !.previous_agent = routing_decision.agent_type]]

\* variant of _update_session_context: previous_agent is left as it was
update_keeping_previous_agent(sc, sid, routing_decision, result, now) ==
    LET sc1 == _get_session_context(sc, sid) IN
    [sc1 EXCEPT ![sid] =
        [@ EXCEPT !.has = @ \cup {"history"},
                  !.history = Append(@, Interaction(now, routing_decision, result))]]

\* variant of _update_session_context: previous_agent is written to every session
update_every_session(sc, sid, routing_decision, result, now) ==
    LET sc1 == update_keeping_previous_agent(sc, sid, routing_decision, result, now) IN
    [x \in DOMAIN sc1 |->
        [sc1[x] EXCEPT !.has = @ \cup {"previous_agent"},
                       !.previous_agent = routing_decision.agent_type]]

\* variant of _update_session_context: the record is rebuilt from the defaults,
\* keeping only the history
update_rebuilding_record(sc, sid, routing_decision, result, now) ==
    LET sc1 == _get_session_context(sc, sid)
        s3  == [DefaultSession EXCEPT
                  !.history = Append(sc1[sid].history,
                                     Interaction(now, routing_decision, result)),
                  !.previous_agent = routing_decision.agent_type]
    IN [sc1 EXCEPT ![sid] = s3]

_update_session_context(sc, sid, routing_decision, result, now) ==
    LET sc1 == IF sid \in DOMAIN sc THEN sc
               ELSE [x \in DOMAIN sc \cup {sid} |-> IF x = sid THEN EmptyMapping ELSE sc[x]]
        s1  == sc1[sid]
        s2  == IF "history" \in s1.has THEN s1
               ELSE [s1 EXCEPT !.has = @ \cup {"history"}, !.history = <<>>]
        s3  == [s2 EXCEPT
                  !.history = Append(@, Interaction(now, routing_decision, result)),
                  !.has = @ \cup {"previous_agent"},
                  !.previous_agent = routing_decision.agent_type]
    IN [sc1 EXCEPT ![sid] = s3]

-----------------------------------------------------------------------------
(* MultiAgentOrchestrator: operations *)

\* The query argument: a str, bytes (no str: re.search raises on it) or None.
TextQuery(s) == [kind |-> "str", text |-> s]

BytesQuery == [kind |-> "bytes", text |-> <<>>]

NoneQuery == [kind |-> "none", text |-> <<>>]

Queries ==
    { TextQuery(q_math), TextQuery(q_compare), TextQuery(q_hello), BytesQuery, NoneQuery }

\* what the coordinator model may answer on the model path
RoutingResponses ==
    { StubRoutingResponse,
      << RouteLine("ROUTE_TO", "COMPARISON_ANALYST"), RouteLine("PIPELINE", "[x]") >>,
      << RouteLine("ROUTE_TO", "somebody"), RouteLine("text", "") >> }

\* the awaited collaborators of one call: "model" makes the coordinator's
\* model call raise, "specialist" makes the specialists' own work raise
Faults == {"none", "model", "specialist"}

\* the collaborators' behaviour during one call: the coordinator model's
\* answer and the fault, if any
Env(response, fault) == [response |-> response, fault |-> fault]

Environments ==
    {Env(r, "none") : r \in RoutingResponses}
        \cup {Env(StubRoutingResponse, f) : f \in Faults}

NoResult == [agent_type |-> None, status |-> None]

\* what the caller of the last operation observed, and what the operation saw
Observed(op, sid, outcome, status, exception, error, seen, context, working, decision, result, before, prior) ==
    [op |-> op, sid |-> sid, outcome |-> outcome, status |-> status,
     exception |-> exception, error |-> error, seen |-> seen,
     context |-> context, working |-> working,
     routing_decision |-> decision, result |-> result,
     before |-> before, prior_ok |-> prior]

NoOp == Observed("none", None, None, None, None, None, EmptyMapping, NoContext, EmptyMapping, NoRoute, NoResult,
                 EmptyMapping, 0)

\* the stored session a call starts from (as _get_session_context creates it)
Before(sid) ==
    IF sid \in DOMAIN session_context THEN session_context[sid] ELSE DefaultSession

process_query(sid, query, context, env) ==
    /\ clock < MaxOps
    /\ clock' = clock + 1
    /\ UNCHANGED <<coordinator_agent, agents, req, fb, fn, am, tasks>>
    /\ LET merged == merged_session_context(session_context, sid, context)
           sc1  == merged.stored
           ctx  == merged.ctx
           obs(outcome, status, exc, err, seen, working, d, r) ==
               Observed("process_query", sid, outcome, status, exc, err, seen, context,
                        working, d, r, Before(sid), Len(ok_log[sid]))
       IN
       IF query.kind = "none"
       THEN \* query[:100] of the first print raises, outside the try
            /\ session_context' = session_context
            /\ ok_log' = ok_log
            /\ last' = obs("raised", None, "TypeError", None, EmptyMapping, EmptyMapping,
                           NoRoute, NoResult)
       ELSE IF context.kind = "bad"
       THEN \* dict.update raises on a value that is no mapping, outside the try
            /\ session_context' = _get_session_context(session_context, sid)
            /\ ok_log' = ok_log
            /\ last' = obs("raised", None, "ValueError", None, EmptyMapping, EmptyMapping,
                           NoRoute, NoResult)
       ELSE IF query.kind = "bytes"
       THEN \* route_query raises in _quick_route_analysis; caught by the try
            /\ session_context' = sc1
            /\ ok_log' = ok_log
            /\ last' = obs("returned", "error", "TypeError", "TypeError", ctx, ctx,
                           NoRoute, NoResult)
       ELSE LET routing_decision ==
                    route_query(query.text, ctx, coordinator_agent, env.response,
                                env.fault = "model")
                result ==
                    IF Len(routing_decision.pipeline) > 0
                    THEN process_pipeline(agents, routing_decision.pipeline, query.text,
                                          env.fault = "specialist")
                    ELSE process_with_agent(agents, routing_decision.agent_type, query.text,
                                            env.fault = "specialist")
                \* the dict of this call once the pipeline has written into it
                working ==
                    [ctx EXCEPT !.has = @ \cup pipeline_context_keys(routing_decision.pipeline)]
            IN /\ session_context' =
                     _update_session_context(sc1, sid, routing_decision, result, clock)
               /\ ok_log' = [ok_log EXCEPT ![sid] =
                                Append(@, [agent_type |-> routing_decision.agent_type,
                                           time |-> clock])]
               /\ last' = obs("returned", "success", None, None, ctx, working,
                              routing_decision, result)

add_documents_to_session(sid, document_info) ==
    /\ clock < MaxOps
    /\ clock' = clock + 1
    /\ LET sc1  == _get_session_context(session_context, sid)
           copy == [sc1[sid] EXCEPT !.has = @ \cup {"document_info"},
                                    !.documents_uploaded = TRUE,
                                    !.document_info = document_info]
       IN session_context' = [sc1 EXCEPT ![sid] = copy]
    /\ last' = Observed("add_documents_to_session", sid, "returned", None, None, None,
                        EmptyMapping, NoContext, EmptyMapping, NoRoute, NoResult, Before(sid), Len(ok_log[sid]))
    /\ UNCHANGED <<coordinator_agent, agents, ok_log, req, fb, fn, am, tasks>>

get_session_history(sid) ==
    /\ clock < MaxOps
    /\ clock' = clock + 1
    /\ session_context' = _get_session_context(session_context, sid)
    /\ last' = Observed("get_session_history", sid, "returned", None, None, None,
                        EmptyMapping, NoContext, EmptyMapping, NoRoute,
                        [agent_type |-> None, status |-> None,
                         history |-> _get_session_context(session_context, sid)[sid].history],
                        Before(sid), Len(ok_log[sid]))
    /\ UNCHANGED <<coordinator_agent, agents, ok_log, req, fb, fn, am, tasks>>

clear_session(sid) ==
    /\ clock < MaxOps
    /\ clock' = clock + 1
    /\ session_context' = [x \in DOMAIN session_context \ {sid} |-> session_context[x]]
    /\ ok_log' = [ok_log EXCEPT ![sid] = <<>>]
    /\ last' = Observed("clear_session", sid, "returned", None, None, None,
                        EmptyMapping, NoContext, EmptyMapping, NoRoute, NoResult, Before(sid), Len(ok_log[sid]))
    /\ UNCHANGED <<coordinator_agent, agents, req, fb, fn, am, tasks>>

\* initialize: the coordinator's _initialize_agent, then the registry's
\* _initialize_agents. Building the coordinator's toolset or Agent may raise
\* (`fails`), before self.agent is assigned; the registry only constructs the
\* five specialists. Neither coroutine suspends, so no other call runs between.
initialize ==
    /\ clock < MaxOps
    /\ clock' = clock + 1
    /\ \E fails \in BOOLEAN :
          IF fails
          THEN /\ UNCHANGED <<coordinator_agent, agents>>
               /\ last' = Observed("initialize", None, "raised", None, "Exception", None,
                                   EmptyMapping, NoContext, EmptyMapping, NoRoute, NoResult, EmptyMapping, 0)
          ELSE /\ coordinator_agent' = TRUE
               /\ agents' = RegisteredAgents
               /\ last' = Observed("initialize", None, "returned", None, None, None,
                                   EmptyMapping, NoContext, EmptyMapping, NoRoute, NoResult, EmptyMapping, 0)
    /\ UNCHANGED <<session_context, ok_log, req, fb, fn, am, tasks>>

-----------------------------------------------------------------------------
(* AgentManager: the agent invocation adapter and the response parser *)

RATE_LIMIT_MESSAGE == "Rate limit exceeded. Please try again in a moment."

\* A response text is a sequence of pieces:
\*   fence_json  the opening fence ```json        fence  a bare fence ```
\*   ws          white space                      text   prose without braces
\*   lbrace / rbrace   a lone { or }
\*   (a fence is written ''' in the pieces' text)
\*   json        the text of one JSON value, `v` the value json.loads gives
Piece(t, s, v) == [t |-> t, s |-> s, v |-> v]

\* JSON values: an object (kind "map", `has` its keys) or an array (kind "list")
JsonObject(has, questions, extractions, document_name, task_type) ==
    [kind |-> "map", has |-> has, questions |-> questions, extractions |-> extractions,
     document_name |-> document_name, task_type |-> task_type, items |-> <<>>]

JsonArray(items) ==
    [kind |-> "list", has |-> {}, questions |-> <<>>, extractions |-> <<>>,
     document_name |-> None, task_type |-> None, items |-> items]

EmptyObject == JsonObject({}, <<>>, <<>>, None, None)

FenceJson == Piece("fence_json", "'''json", EmptyObject)

Fence == Piece("fence", "'''", EmptyObject)

Ws == Piece("ws", " ", EmptyObject)

LBrace == Piece("lbrace", "{", EmptyObject)

RBrace == Piece("rbrace", "}", EmptyObject)

Text(s) == Piece("text", s, EmptyObject)

Json(v) == Piece("json", "", v)

\* What the transport does for one run_async call: it yields events whose
\* last one carries `response`, yields no event, or raises `message`.
Events(response) == [kind |-> "events", response |-> response, message |-> ""]

NoEvents == [kind |-> "empty", response |-> <<>>, message |-> ""]

Raises(message) == [kind |-> "raises", response |-> <<>>, message |-> message]

\* "429" in str(e) or "RESOURCE_EXHAUSTED" in str(e), for the messages modelled
RateLimitMarked(message) ==
    message \in {"429 Too Many Requests", "RESOURCE_EXHAUSTED: quota"}

\* the text run_agent returns
run_agent(transport) ==
    IF transport.kind = "events" THEN transport.response
    ELSE IF transport.kind = "empty" THEN <<Text("(no response)")>>
    ELSE IF RateLimitMarked(transport.message) THEN <<Text(RATE_LIMIT_MESSAGE)>>
    ELSE <<Text("Error: "), Text(transport.message)>>

\* "Rate limit exceeded" in response, for the prose modelled
HasRateLimitPhrase(response) ==
    \E i \in 1..Len(response) :
        response[i].t = "text" /\ response[i].s = RATE_LIMIT_MESSAGE

\* which pieces hold the substrings the parser searches for
IsFenceJson(p) == p.t = "fence_json"

IsFence(p) == p.t \in {"fence", "fence_json"}

HasOpenBrace(p) == p.t = "lbrace" \/ (p.t = "json" /\ p.v.kind = "map")

HasCloseBrace(p) == p.t = "rbrace" \/ (p.t = "json" /\ p.v.kind = "map")

\* response.find(sub, from): the first piece at or after `from`, 0 when absent
FindFirst(response, Holds(_), from) ==
    IF \E i \in from..Len(response) : Holds(response[i])
    THEN CHOOSE i \in from..Len(response) :
            /\ Holds(response[i])
            /\ \A j \in from..(i-1) : ~Holds(response[j])
    ELSE 0

\* response.rfind(sub): the last piece, 0 when absent
FindLast(response, Holds(_)) ==
    IF \E i \in 1..Len(response) : Holds(response[i])
    THEN CHOOSE i \in 1..Len(response) :
            /\ Holds(response[i])
            /\ \A j \in (i+1)..Len(response) : ~Holds(response[j])
    ELSE 0

\* str.strip()
RECURSIVE Strip(_)
Strip(s) ==
    IF Len(s) > 0 /\ s[1].t = "ws" THEN Strip(Tail(s))
    ELSE IF Len(s) > 0 /\ s[Len(s)].t = "ws" THEN Strip(SubSeq(s, 1, Len(s) - 1))
    ELSE s

\* json.loads: the value, or a failure (ValueError)
LoadsFails == [kind |-> "fails", has |-> {}, questions |-> <<>>, extractions |-> <<>>,
               document_name |-> None, task_type |-> None, items |-> <<>>]

json_loads(s) ==
    LET body == Strip(s) IN
    IF Len(body) = 1 /\ body[1].t = "json" THEN body[1].v
    ELSE IF Len(body) >= 2 /\ body[1].t = "lbrace" /\ body[Len(body)].t = "rbrace"
            /\ \A i \in 2..(Len(body) - 1) : body[i].t = "ws"
    THEN EmptyObject
    ELSE LoadsFails

OrEmpty(v) == IF v.kind = "fails" THEN EmptyObject ELSE v

parse_json_response(response) ==
    LET fence_at == FindFirst(response, IsFenceJson, 1)
        end_at   == FindFirst(response, IsFence, fence_at + 1)
        start    == FindFirst(response, HasOpenBrace, 1)
        end      == FindLast(response, HasCloseBrace)
    IN
    IF fence_at # 0 /\ end_at # 0
    THEN OrEmpty(json_loads(SubSeq(response, fence_at + 1, end_at - 1)))
    ELSE IF start # 0 /\ end # 0
    THEN OrEmpty(json_loads(SubSeq(response, start, end)))
    ELSE EmptyObject

\* mapping.get(key, default); on a value that is no mapping the call raises
IsMapping(v) == v.kind = "map"

Get(v, key, default) == IF key \in v.has THEN v[key] ELSE default

\* truth value of a parsed value
ValueTruthy(v) == IF v.kind = "map" THEN v.has # {} ELSE Len(v.items) > 0

-----------------------------------------------------------------------------
(* DocumentType.FALLBACK_QUESTIONS and AgentManager.get_fallback_questions *)

FALLBACK_LEASE ==
    << "What is the rental amount or monthly rent?",
       "What are the lease terms and duration?",
       "What are the pet policies and associated fees?",
       "What security deposit is required?",
       "What are the tenant responsibilities?",
       "What are the landlord responsibilities?",
       "What are the termination conditions?",
       "What penalties or fees are mentioned?" >>

FALLBACK_CONTRACT ==
    << "What are the main terms and conditions?",
       "Who are the parties involved?",
       "What are the obligations of each party?",
       "What are the payment terms?",
       "What are the termination clauses?",
       "What penalties or consequences are specified?",
       "What are the key dates and deadlines?",
       "What dispute resolution mechanisms exist?" >>

FALLBACK_POLICY ==
    << "What is the main purpose or scope?",
       "What are the key policies or rules?",
       "Who does this apply to?",
       "What are the requirements or qualifications?",
       "What are the procedures to follow?",
       "What are the exceptions or special cases?",
       "What are the consequences of non-compliance?",
       "How often is this reviewed or updated?" >>

FALLBACK_GENERIC ==
    << "What is the main subject or purpose?",
       "What are the key terms and conditions?",
       "What costs, fees, or financial aspects are mentioned?",
       "What requirements or qualifications exist?",
       "What are the important dates and deadlines?",
       "What parties or entities are involved?",
       "What processes or procedures are described?",
       "What risks, penalties, or consequences are mentioned?" >>

lease_words == {kw_lease, kw_rent, kw_tenant, kw_landlord}

contract_words == {kw_contract, kw_agreement, kw_terms, kw_conditions}

policy_words == {kw_policy, kw_procedure, kw_guidelines, kw_rules}

\* prompt.lower() + " " + " ".join([content.lower() for _, content in pdf_contents])
AllText(prompt, pdf_contents) ==
    Lower(prompt) \o <<" ">>
        \o Join(<<" ">>, [i \in 1..Len(pdf_contents) |-> Lower(pdf_contents[i].content)])

\* variant of get_fallback_questions: the contract words are tried first
fallback_contract_first(prompt, pdf_contents) ==
    LET all_text == AllText(prompt, pdf_contents) IN
    IF \E word \in contract_words : IsSubstr(word, all_text) THEN FALLBACK_CONTRACT
    ELSE IF \E word \in lease_words : IsSubstr(word, all_text) THEN FALLBACK_LEASE
    ELSE IF \E word \in policy_words : IsSubstr(word, all_text) THEN FALLBACK_POLICY
    ELSE FALLBACK_GENERIC

get_fallback_questions(prompt, pdf_contents) ==
    LET all_text == AllText(prompt, pdf_contents) IN
    IF \E word \in lease_words : IsSubstr(word, all_text) THEN FALLBACK_LEASE
    ELSE IF \E word \in contract_words : IsSubstr(word, all_text) THEN FALLBACK_CONTRACT
    ELSE IF \E word \in policy_words : IsSubstr(word, all_text) THEN FALLBACK_POLICY
    ELSE FALLBACK_GENERIC

-----------------------------------------------------------------------------
(* PDFProcessor: question generation, extraction, comparison *)

Doc(name, content) == [name |-> name, content |-> content]

\* what a step hands back: a value, or an exception leaving the step
Returned(v) == [raised |-> FALSE, value |-> v]

Raised == [raised |-> TRUE, value |-> <<>>]

\* _generate_questions after run_agent has returned questions_response
_generate_questions(prompt, pdf_contents, questions_response) ==
    LET questions_data == parse_json_response(questions_response) IN
    IF ~IsMapping(questions_data) THEN Raised
    ELSE LET questions == Get(questions_data, "questions", <<>>)
             chosen == IF Len(questions) = 0
                       THEN get_fallback_questions(prompt, pdf_contents)
                       ELSE questions
         IN Returned(Take(chosen, MAX_QUESTIONS))

TRUNCATION_MARKER == <<"\\n\\n[Content truncated due to length...]">>

Ellipsis == <<".", ".", ".">>

\* content[:MAX_CONTENT_LENGTH], with the marker when the content was longer
Truncated(content) ==
    IF Len(content) > MAX_CONTENT_LENGTH
    THEN Take(content, MAX_CONTENT_LENGTH) \o TRUNCATION_MARKER
    ELSE Take(content, MAX_CONTENT_LENGTH)

Row(question, answer, source_text) ==
    [question |-> question, answer |-> answer, source_text |-> source_text]

\* variant of fallback_extraction: the whole text is the answer
fallback_with_whole_text(filename, truncated_content) ==
    JsonObject({"document_name", "extractions"}, <<>>,
               << Row("Document summary", truncated_content \o Ellipsis, "Full document") >>,
               filename, None)

fallback_extraction(filename, truncated_content) ==
    JsonObject({"document_name", "extractions"}, <<>>,
               << Row("Document summary", Take(truncated_content, SUMMARY_LENGTH) \o Ellipsis,
                      "Full document") >>,
               filename, None)

\* variant of extract_one: the response is never looked at for the rate limit
extract_ignoring_rate_limit(filename, content, extraction_response) ==
    LET extraction_data == parse_json_response(extraction_response) IN
    IF ValueTruthy(extraction_data) /\ ~IsMapping(extraction_data)
    THEN [kind |-> "raised", record |-> EmptyObject]
    ELSE IF ValueTruthy(extraction_data) /\ Len(Get(extraction_data, "extractions", <<>>)) > 0
    THEN [kind |-> "record",
          record |-> [extraction_data EXCEPT !.has = @ \cup {"document_name"},
                                             !.document_name = filename]]
    ELSE [kind |-> "record", record |-> fallback_extraction(filename, Truncated(content))]

\* One turn of the loop of _extract_information, after run_agent has returned
\* extraction_response: "rate_limit" (the loop is left), a raise, or the record
\* appended for the document.
extract_one(filename, content, extraction_response) ==
    LET truncated_content == Truncated(content)
        extraction_data == parse_json_response(extraction_response)
    IN
    IF HasRateLimitPhrase(extraction_response)
    THEN [kind |-> "rate_limit", record |-> EmptyObject]
    ELSE IF ValueTruthy(extraction_data) /\ ~IsMapping(extraction_data)
    THEN [kind |-> "raised", record |-> EmptyObject]
    ELSE IF ValueTruthy(extraction_data) /\ Len(Get(extraction_data, "extractions", <<>>)) > 0
    THEN [kind |-> "record",
          record |-> [extraction_data EXCEPT !.has = @ \cup {"document_name"},
                                             !.document_name = filename]]
    ELSE [kind |-> "record", record |-> fallback_extraction(filename, truncated_content)]

-----------------------------------------------------------------------------
(* DocumentComparator.find_key_differences *)

\* the (document, question, answer) triples in the order the loops visit them
RECURSIVE Visits(_)
Visits(extractions) ==
    IF Len(extractions) = 0 THEN <<>>
    ELSE LET e == Head(extractions)
             rows == Get(e, "extractions", <<>>)
             doc_name == Get(e, "document_name", "Unknown")
         IN [i \in 1..Len(rows) |->
                [doc |-> doc_name, question |-> rows[i].question, answer |-> rows[i].answer]]
            \o Visits(Tail(extractions))

\* the keys of a dict in insertion order
RECURSIVE KeysInOrder(_, _)
KeysInOrder(keys, seen) ==
    IF Len(keys) = 0 THEN <<>>
    ELSE IF Head(keys) \in seen THEN KeysInOrder(Tail(keys), seen)
    ELSE <<Head(keys)>> \o KeysInOrder(Tail(keys), seen \cup {Head(keys)})

SelectVisits(visits, question) == SelectSeq(visits, LAMBDA v : v.question = question)

\* questions[question]: document -> answer, the last answer written winning
AnswersOf(visits, question) ==
    LET mine == SelectVisits(visits, question)
        docs == KeysInOrder([i \in 1..Len(mine) |-> mine[i].doc], {})
    IN [i \in 1..Len(docs) |->
          [doc |-> docs[i],
           answer |-> mine[CHOOSE j \in 1..Len(mine) :
                              /\ mine[j].doc = docs[i]
                              /\ \A m \in (j+1)..Len(mine) : mine[m].doc # docs[i]].answer]]

ANSWER_SHOWN == 8

\* answer[:100], with '...' when the answer is longer (100 scaled to ANSWER_SHOWN)
Shown(answer) ==
    IF Len(answer) > ANSWER_SHOWN THEN Take(answer, ANSWER_SHOWN) \o Ellipsis
    ELSE Take(answer, ANSWER_SHOWN)

\* str.rstrip('; ')
RECURSIVE RStrip(_)
RStrip(s) ==
    IF Len(s) > 0 /\ s[Len(s)] \in {";", " "} THEN RStrip(SubSeq(s, 1, Len(s) - 1))
    ELSE s

\* one difference line: the question, then document and shown answer for every
\* key of questions[question]; rstrip reaches the text of the last answer
DifferenceLine(question, answers) ==
    [question |-> question,
     answers |-> [i \in 1..Len(answers) |->
                    [doc |-> answers[i].doc,
                     answer |-> answers[i].answer,
                     shown |-> IF i = Len(answers) THEN RStrip(Shown(answers[i].answer))
                               ELSE Shown(answers[i].answer)]]]

DistinctAnswers(answers) == { answers[i].answer : i \in 1..Len(answers) }

find_key_differences(extractions) ==
    IF Len(extractions) < 2 THEN <<>>
    ELSE LET visits == Visits(extractions)
             questions == KeysInOrder([i \in 1..Len(visits) |-> visits[i].question], {})
             differing == SelectSeq(questions,
                              LAMBDA q : Cardinality(DistinctAnswers(AnswersOf(visits, q))) > 1)
         IN [i \in 1..Len(differing) |->
               DifferenceLine(differing[i], AnswersOf(visits, differing[i]))]

MAX_DIFFERENCES == 10

_create_comparison_result(prompt, extractions) ==
    [type |-> "report",
     prompt |-> prompt,
     count |-> Len(extractions),
     documents |-> [i \in 1..Len(extractions) |->
                      [document_name |-> extractions[i].document_name,
                       rows |-> Take(Get(extractions[i], "extractions", <<>>),
                                     MAX_EXTRACTIONS)]],
     differences |-> Take(find_key_differences(extractions), MAX_DIFFERENCES)]

NoReport == [type |-> "none"]

\* what a request hands back: a text, or the comparison report
TextResult(text) == [type |-> "text", text |-> text, report |-> NoReport]

ReportResult(report) == [type |-> "report", text |-> <<>>, report |-> report]

NEED_TWO_MESSAGE == "I need at least 2 PDF files to perform a comparison."

NO_EXTRACTION_MESSAGE ==
    "Could not extract information from the documents due to rate limits. Please try again later."

-----------------------------------------------------------------------------
(* DocumentRouter.route_request / PDFProcessor.process_comparison, and their  *)
(* predecessors _mcp_reply / _process_pdf_comparison of gradio_app_2.py.      *)
(* A request advances by one adapter call per step.                           *)

\* entry points: the router of pdf_processor.py, process_comparison called
\* directly, and the router of gradio_app_2.py
Entries == {"route_request", "process_comparison", "_mcp_reply"}

Prompts == {p_lease, p_plain}

Contents == {d_rent, d_empty}

FileNames == <<"a.pdf", "b.pdf", "c.pdf", "d.pdf", "e.pdf">>

\* the lists of at most MaxDocs documents, named in upload order
DocLists ==
    UNION { { [i \in 1..n |-> Doc(FileNames[i], c[i])] : c \in [1..n -> Contents] }
            : n \in 0..MaxDocs }

TaskObject(task_type) == JsonObject({"task_type", "reasoning"}, <<>>, <<>>, None, task_type)

QuestionsObject(questions) ==
    JsonObject({"document_type_detected", "questions"}, questions, <<>>, None, None)

ExtractionObject(has, rows, document_name) ==
    JsonObject(has, <<>>, rows, document_name, None)

Fenced(v) == <<FenceJson, Ws, Json(v), Ws, Fence>>

RateLimited == Raises("429 Too Many Requests")

CoordinatorTransports ==
    { Events(<<Text("Here it is: "), Json(TaskObject("pdf_comparison"))>>),
      Events(Fenced(TaskObject("general"))),
      Events(<<Text("I cannot tell")>>),
      Events(Fenced(JsonArray(<<"pdf_comparison">>))),
      RateLimited }

GeneratorTransports ==
    { Events(Fenced(QuestionsObject(<<"What is the rent?", "Who is the landlord?">>))),
      Events(<<Json(QuestionsObject([i \in 1..(MAX_QUESTIONS + 1) |-> "What is the rent?"]))>>),
      Events(<<Json(QuestionsObject(<<>>))>>),
      Events(<<Text("no questions, sorry")>>),
      Events(Fenced(JsonArray(<<"What is the rent?">>))),
      Raises("connection reset"),
      RateLimited }

ExtractorTransports ==
    { Events(Fenced(ExtractionObject({"document_name", "extractions"},
                       <<Row("What is the rent?", <<"$","1","0","0","0">>, "quote")>>,
                       "other.pdf"))),
      Events(<<Json(ExtractionObject({"extractions"},
                       <<Row("What is the rent?", <<"$","1","2","0","0">>, "quote")>>,
                       None))>>),
      Events(<<Json(ExtractionObject({"document_name", "extractions"}, <<>>, "other.pdf"))>>),
      Events(Fenced(JsonArray(<<"rent">>))),
      NoEvents,
      RateLimited }

GeneralTransports == { Events(<<Text("It is 8.")>>), RateLimited }

Call(agent, doc, response) == [agent |-> agent, doc |-> doc, response |-> response]

\* req: the request in progress.  calls, generation, extraction and
\* sentinel_at record what happened: the adapter calls issued, how the question
\* generation and the extraction loop ended, and the document whose
\* extraction call returned RATE_LIMIT_MESSAGE (0: none).
Request(pc, entry, prompt, pdf_contents, questions, all_extractions, calls, generation, extraction, sentinel_at, outcome, result) ==
    [pc |-> pc, entry |-> entry, prompt |-> prompt, pdf_contents |-> pdf_contents,
     questions |-> questions, all_extractions |-> all_extractions, calls |-> calls,
     generation |-> generation, extraction |-> extraction, sentinel_at |-> sentinel_at,
     outcome |-> outcome, result |-> result]

ReqIdle ==
    Request("idle", None, <<>>, <<>>, <<>>, <<>>, <<>>, "none", "none", 0, "none",
            TextResult(<<>>))

\* the question step of _process_pdf_comparison (gradio_app_2.py): the bank is
\* chosen by looking at the prompt and at each document, the list is not cut
gradio_fallback_questions(prompt, pdf_contents) ==
    LET Found(words) ==
            \E word \in words :
                \/ IsSubstr(word, Lower(prompt))
                \/ \E i \in 1..Len(pdf_contents) :
                      IsSubstr(word, Lower(pdf_contents[i].content))
    IN IF Found(lease_words) THEN FALLBACK_LEASE
       ELSE IF Found(contract_words) THEN FALLBACK_CONTRACT
       ELSE IF Found(policy_words) THEN FALLBACK_POLICY
       ELSE FALLBACK_GENERIC

gradio_generate_questions(prompt, pdf_contents, questions_response) ==
    LET questions_data == parse_json_response(questions_response) IN
    IF ~IsMapping(questions_data) THEN Raised
    ELSE LET questions == Get(questions_data, "questions", <<>>) IN
         Returned(IF Len(questions) = 0
                  THEN gradio_fallback_questions(prompt, pdf_contents)
                  ELSE questions)

\* the report of _process_pdf_comparison (gradio_app_2.py): no differences part
gradio_comparison_result(prompt, extractions) ==
    [_create_comparison_result(prompt, extractions) EXCEPT !.differences = <<>>]

\* the first statements of process_comparison / _process_pdf_comparison
EnterComparison(r) ==
    IF Len(r.pdf_contents) < 2
    THEN [r EXCEPT !.pc = "done", !.outcome = "returned",
                   !.result = TextResult(<<Text(NEED_TWO_MESSAGE)>>)]
    ELSE [r EXCEPT !.pc = "generate"]

\* a caller submits a request
Submit(entry, prompt, pdf_contents) ==
    /\ req.pc = "idle"
    /\ LET r == [ReqIdle EXCEPT !.entry = entry, !.prompt = prompt,
                                !.pdf_contents = pdf_contents]
       IN req' = IF entry = "process_comparison" THEN EnterComparison(r)
                 ELSE [r EXCEPT !.pc = "classify"]
    /\ UNCHANGED <<orchVars, fb, fn, am, tasks>>

\* _determine_task_type and the branch of route_request / _mcp_reply
_determine_task_type(transport) ==
    /\ req.pc = "classify"
    /\ LET coordination_response == run_agent(transport)
           coordination_data == parse_json_response(coordination_response)
           r == [req EXCEPT !.calls = Append(@, Call("coordinator", 0, coordination_response))]
       IN req' =
            IF ~IsMapping(coordination_data)
            THEN [r EXCEPT !.pc = "done", !.outcome = "raised"]
            ELSE IF Get(coordination_data, "task_type", "general") = "pdf_comparison"
                    /\ Len(req.pdf_contents) >= 2
            THEN EnterComparison(r)
            ELSE [r EXCEPT !.pc = "general"]
    /\ UNCHANGED <<orchVars, fb, fn, am, tasks>>

\* _handle_general_query
_handle_general_query(transport) ==
    /\ req.pc = "general"
    /\ LET response == run_agent(transport) IN
       req' = [req EXCEPT !.pc = "done", !.outcome = "returned",
                          !.calls = Append(@, Call("general", 0, response)),
                          !.result = TextResult(response)]
    /\ UNCHANGED <<orchVars, fb, fn, am, tasks>>

\* step 1 of the comparison: the question generator's call
generate_questions_step(transport) ==
    /\ req.pc = "generate"
    /\ LET questions_response == run_agent(transport)
           got == IF req.entry = "_mcp_reply"
                  THEN gradio_generate_questions(req.prompt, req.pdf_contents,
                                                 questions_response)
                  ELSE _generate_questions(req.prompt, req.pdf_contents,
                                           questions_response)
           r == [req EXCEPT
                   !.calls = Append(@, Call("question_generator", 0, questions_response))]
       IN req' =
            IF got.raised
            THEN [r EXCEPT !.pc = "done", !.outcome = "raised", !.generation = "raised"]
            ELSE [r EXCEPT !.pc = "extract", !.generation = "returned",
                           !.questions = got.value, !.extraction = "running"]
    /\ UNCHANGED <<orchVars, fb, fn, am, tasks>>

\* what the comparison returns once the loop has ended with all_extractions
FinishComparison(r) ==
    [r EXCEPT !.pc = "done", !.outcome = "returned", !.extraction = "returned",
              !.result = IF Len(r.all_extractions) = 0
                         THEN TextResult(<<Text(NO_EXTRACTION_MESSAGE)>>)
                         ELSE IF r.entry = "_mcp_reply"
                         THEN ReportResult(gradio_comparison_result(r.prompt,
                                                                    r.all_extractions))
                         ELSE ReportResult(_create_comparison_result(r.prompt,
                                                                     r.all_extractions))]

\* variant of RateLimitExit: the adapter's message is handed back
exit_with_sentinel(r) ==
    [r EXCEPT !.pc = "done", !.outcome = "returned", !.extraction = "left",
              !.result = TextResult(<<Text(RATE_LIMIT_MESSAGE)>>)]

\* what the comparison returns when an extraction response is rate limited:
\* _process_pdf_comparison returns the message itself; _extract_information
\* returns an empty list, which process_comparison then finds empty
RateLimitExit(r) ==
    IF r.entry = "_mcp_reply"
    THEN [r EXCEPT !.pc = "done", !.outcome = "returned", !.extraction = "left",
                   !.result = TextResult(<<Text(RATE_LIMIT_MESSAGE)>>)]
    ELSE [FinishComparison([r EXCEPT !.all_extractions = <<>>]) EXCEPT !.extraction = "left"]

\* step 2 of the comparison: one turn of the extraction loop
extract_information_step(transport) ==
    /\ req.pc = "extract"
    /\ LET k == Len(req.all_extractions) + 1
           document == req.pdf_contents[k]
           extraction_response == run_agent(transport)
           got == extract_one(document.name, document.content, extraction_response)
           r == [req EXCEPT
                   !.calls = Append(@, Call("information_extractor", k, extraction_response)),
                   !.sentinel_at = IF extraction_response = <<Text(RATE_LIMIT_MESSAGE)>>
                                   THEN k ELSE @]
       IN req' =
            IF got.kind = "rate_limit" THEN RateLimitExit(r)
            ELSE IF got.kind = "raised"
            THEN [r EXCEPT !.pc = "done", !.outcome = "raised", !.extraction = "raised"]
            ELSE LET r2 == [r EXCEPT !.all_extractions = Append(@, got.record)] IN
                 IF k = Len(req.pdf_contents) THEN FinishComparison(r2) ELSE r2
    /\ UNCHANGED <<orchVars, fb, fn, am, tasks>>

NextPdf ==
    \/ \E entry \in Entries, prompt \in Prompts, pdf_contents \in DocLists :
          Submit(entry, prompt, pdf_contents)
    \/ \E transport \in CoordinatorTransports : _determine_task_type(transport)
    \/ \E transport \in GeneralTransports : _handle_general_query(transport)
    \/ \E transport \in GeneratorTransports : generate_questions_step(transport)
    \/ \E transport \in ExtractorTransports : extract_information_step(transport)

-----------------------------------------------------------------------------
(* AgentManager.get_fallback_questions on its own *)

BankPrompts == {p_lease, p_contract, p_policy, p_plain}

BankContents == {d_rent, d_terms, d_rules, d_parent, d_plain, d_empty}

MaxBankDocs == 2

BankDocLists ==
    UNION { { [i \in 1..n |-> Doc(FileNames[i], c[i])] : c \in [1..n -> BankContents] }
            : n \in 0..MaxBankDocs }

Bank(pc, prompt, pdf_contents, questions) ==
    [pc |-> pc, prompt |-> prompt, pdf_contents |-> pdf_contents, questions |-> questions]

FbIdle == Bank("idle", <<>>, <<>>, <<>>)

call_get_fallback_questions ==
    /\ fb.pc = "input"
    /\ fb' = [fb EXCEPT !.pc = "done",
                        !.questions = get_fallback_questions(fb.prompt, fb.pdf_contents)]
    /\ UNCHANGED <<orchVars, req, fn, am, tasks>>

NextBank == call_get_fallback_questions

-----------------------------------------------------------------------------
(* CoordinatorAgent.route_query on its own *)

FnIdle == [pc |-> "idle"]

\* the context argument of route_query: None, or a mapping with or without
\* the document flags
RouteContexts ==
    { NoContext,
      MapContext({"interface"}, FALSE, FALSE),
      MapContext({"documents_uploaded"}, FALSE, FALSE),
      MapContext({"documents_uploaded"}, TRUE, FALSE),
      MapContext({"has_documents"}, FALSE, TRUE),
      MapContext({"documents_uploaded", "has_documents"}, TRUE, TRUE) }

\* what the coordinator model may answer
RouteResponses ==
    { StubRoutingResponse,
      << RouteLine("ROUTE_TO", "DOCUMENT_COMPARISON"),
         RouteLine("PIPELINE", "[information_extractor, document_comparison]") >>,
      << RouteLine("REASONING", "a comparison"), RouteLine("ROUTE_TO", "COMPARISON_ANALYST") >>,
      << RouteLine("ROUTE_TO", "somebody"), RouteLine("PIPELINE", "[]") >>,
      << RouteLine("text", ""), RouteLine("REASONING", "no route given") >>,
      << >> }

Routing(pc, query, ctx, agent, response, modelFails, quick_route, decision, model_calls) ==
    [pc |-> pc, query |-> query, ctx |-> ctx, agent |-> agent, response |-> response,
     modelFails |-> modelFails, quick_route |-> quick_route, decision |-> decision,
     model_calls |-> model_calls]

call_route_query ==
    /\ fn.pc = "input"
    /\ fn' = [fn EXCEPT
                !.pc = "routed",
                !.quick_route = _quick_route_analysis(fn.query, fn.ctx),
                !.decision = route_query(fn.query, fn.ctx, fn.agent, fn.response,
                                         fn.modelFails),
                !.model_calls = route_query_calls(fn.query, fn.ctx, fn.agent)]
    /\ UNCHANGED <<orchVars, req, fb, am, tasks>>

NextRoute == call_route_query

-----------------------------------------------------------------------------
(* AgentRegistry.process_pipeline applied to one pipeline *)

MaxStages == 3

\* stage names a routing decision can carry, one of them unregistered
Stages == {"general_knowledge", "information_extractor", "comparison_analyst", "nobody"}

RECURSIVE SeqsUpTo(_, _)
SeqsUpTo(S, n) ==
    IF n = 0 THEN { <<>> }
    ELSE LET shorter == SeqsUpTo(S, n - 1)
         IN shorter \cup { Append(s, x) : s \in { t \in shorter : Len(t) = n - 1 }, x \in S }

Pipelines == SeqsUpTo(Stages, MaxStages)

Registries == { RegisteredAgents, EmptyRegistry }

PipelineKeys == { {}, {"history", "documents_uploaded"} }

Piping(pc, registry, pipeline, query, fails, has, loop, result) ==
    [pc |-> pc, registry |-> registry, pipeline |-> pipeline, query |-> query,
     fails |-> fails, has |-> has, loop |-> loop, result |-> result]

call_process_pipeline ==
    /\ fn.pc = "pipeline"
    /\ fn' = [fn EXCEPT
                !.pc = "piped",
                !.loop = PipelineLoop(fn.registry, fn.pipeline, fn.query, fn.fails,
                                      PipelineStart(fn.has)),
                !.result = process_pipeline(fn.registry, fn.pipeline, fn.query, fn.fails)]
    /\ UNCHANGED <<orchVars, req, fb, am, tasks>>

NextPipeline == call_process_pipeline

-----------------------------------------------------------------------------
(* DocumentComparator.find_key_differences applied to one list of records *)

MaxRecords == 3

a_1000 == <<"$", "1", "0", "0", "0">>
a_1200 == <<"$", "1", "2", "0", "0">>
a_long == <<"$", "1", "0", "0", "0", " ", "a", " ", "m", "o", "n", "t", "h", ";">>

\* the rows one document can bring: none, one answer, the same question at
\* another position, a question answered twice, an answer longer than shown
RowLists ==
    { <<>>,
      <<Row("What is the rent?", a_1000, "quote")>>,
      <<Row("What is the rent?", a_1200, "quote")>>,
      <<Row("Who is the tenant?", a_1000, "quote"), Row("What is the rent?", a_1000, "quote")>>,
      <<Row("What is the rent?", a_1200, "quote"), Row("What is the rent?", a_1000, "quote")>>,
      <<Row("What is the rent?", a_long, "quote")>> }

\* file names as Path(file_path).name gives them: two uploads may share one
RecordNames == {"a.pdf", "b.pdf"}

Records ==
    { JsonObject({"document_name", "extractions"}, <<>>, rows, name, None) :
        rows \in RowLists, name \in RecordNames }

Diffing(pc, extractions, differences) ==
    [pc |-> pc, extractions |-> extractions, differences |-> differences]

call_find_key_differences ==
    /\ fn.pc = "records"
    /\ fn' = [fn EXCEPT !.pc = "compared",
                        !.differences = find_key_differences(fn.extractions)]
    /\ UNCHANGED <<orchVars, req, fb, am, tasks>>

NextDiff == call_find_key_differences

-----------------------------------------------------------------------------
(* AgentManager.parse_json_response applied to one response *)

MaxPieces == 4

\* what a response is made of: fences, blanks, prose, braces, a JSON object
\* and a JSON array
ResponsePieces ==
    { FenceJson, Fence, Ws, Text("Here it is: "), LBrace, RBrace,
      Json(TaskObject("general")), Json(JsonArray(<<"rent">>)) }

Responses == SeqsUpTo(ResponsePieces, MaxPieces)

Parsing(pc, response, parsed) == [pc |-> pc, response |-> response, parsed |-> parsed]

call_parse_json_response ==
    /\ fn.pc = "response"
    /\ fn' = [fn EXCEPT !.pc = "parsed", !.parsed = parse_json_response(fn.response)]
    /\ UNCHANGED <<orchVars, req, fb, am, tasks>>

NextParse == call_parse_json_response

-----------------------------------------------------------------------------
(* AgentManager: concurrent run_agent calls on one manager *)

MaxCalls == 2

CallIds == 1..MaxCalls

\* the agents initialize creates; the runner is built around the coordinator
Personas == {"coordinator", "general_assistant", "question_generator",
             "information_extractor", "comparison_analyst"}

\* one run_agent call: where it is, the agent it was given, the agent it
\* saved, the runner's agent its invocation ran with, and how it ended
AgentCall(pc, agent, original_agent, ran_with, outcome, text) ==
    [pc |-> pc, agent |-> agent, original_agent |-> original_agent,
     ran_with |-> ran_with, outcome |-> outcome, text |-> text]

NoCall == AgentCall("idle", None, None, None, "none", <<>>)

\* AgentManager.__init__: nothing created, no call made
AmIdle == [initialized |-> FALSE, runner_agent |-> None, calls |-> [c \in {} |-> NoCall]]

AmStart == [initialized |-> FALSE, runner_agent |-> None, calls |-> [c \in CallIds |-> NoCall]]

\* the manager after an earlier call has run initialize and has completed
AmReady == [initialized |-> TRUE, runner_agent |-> "coordinator",
            calls |-> [c \in CallIds |-> NoCall]]

\* what the model can do for one invocation
InvocationTransports ==
    { Events(<<Text("It is 8.")>>),
      NoEvents,
      Raises("429 Too Many Requests"),
      Raises("RESOURCE_EXHAUSTED: quota"),
      Raises("connection reset") }

\* the agent attribute a caller reads before the call: unset until initialize ran
CallerAgents == IF am.initialized THEN Personas ELSE {None}

\* run_agent up to its first suspension: initialize (outside the try), then
\* the runner's agent is saved and replaced and run_async is entered with it
begin_run_agent(c, agent, initFails) ==
    /\ am.calls[c].pc = "idle"
    /\ initFails => ~am.initialized
    /\ IF initFails
       THEN \* an _create_*_agent or Runner(...) raises; run_agent has no handler yet
            am' = [am EXCEPT !.calls[c] = AgentCall("done", agent, None, None, "raised", <<>>)]
       ELSE LET original_agent == IF am.initialized THEN am.runner_agent ELSE "coordinator"
            IN am' = [am EXCEPT
                        !.initialized = TRUE,
                        !.runner_agent = agent,
                        !.calls[c] = AgentCall("running", agent, original_agent, agent,
                                               "none", <<>>)]
    /\ UNCHANGED <<orchVars, req, fb, fn, tasks>>

\* the invocation ends: the return or the except branch, then the finally block
finish_run_agent(c, transport) ==
    /\ am.calls[c].pc = "running"
    /\ am' = [am EXCEPT !.runner_agent = am.calls[c].original_agent,
                        !.calls[c].pc = "done",
                        !.calls[c].outcome = "returned",
                        !.calls[c].text = run_agent(transport)]
    /\ UNCHANGED <<orchVars, req, fb, fn, tasks>>

NextAgent ==
    \/ \E c \in CallIds, initFails \in BOOLEAN :
          \E agent \in CallerAgents : begin_run_agent(c, agent, initFails)
    \/ \E c \in CallIds, transport \in InvocationTransports : finish_run_agent(c, transport)

-----------------------------------------------------------------------------
(* MultiAgentOrchestrator: process_query calls that overlap *)

MaxTasks == 2

TaskIds == 1..MaxTasks

\* one process_query call: idle, awaiting its collaborators, or done; ctx is
\* the dict of the call (the copy of the session merged with the caller's context)
Task(pc, sid, query, context, ctx, env) ==
    [pc |-> pc, sid |-> sid, query |-> query, context |-> context, ctx |-> ctx, env |-> env]

NoTask == Task("idle", None, NoneQuery, NoContext, EmptyMapping, Env(StubRoutingResponse, "none"))

NoTasks == [t \in {} |-> NoTask]

TaskQueries == { TextQuery(q_hello), BytesQuery }

TaskContexts == { MapContext({"documents_uploaded"}, TRUE, FALSE), BadContext }

TaskEnvironments == { Env(StubRoutingResponse, "none") }

\* process_query up to its first await: the print, the copy of the session
\* (created when absent) and the merge of the caller's context
begin_process_query(t, sid, query, context, env) ==
    /\ tasks[t].pc = "idle"
    /\ \A u \in 1..(t - 1) : tasks[u].pc # "idle"    \* calls are numbered as they start
    /\ LET merged == merged_session_context(session_context, sid, context)
           obs(outcome, exc) ==
               Observed("process_query", sid, outcome, None, exc, None, EmptyMapping, context,
                        EmptyMapping, NoRoute, NoResult, Before(sid), Len(ok_log[sid]))
       IN
       IF query.kind = "none"
       THEN /\ session_context' = session_context
            /\ tasks' = [tasks EXCEPT ![t] = Task("done", sid, query, context, EmptyMapping, env)]
            /\ last' = obs("raised", "TypeError")
       ELSE IF context.kind = "bad"
       THEN /\ session_context' = _get_session_context(session_context, sid)
            /\ tasks' = [tasks EXCEPT ![t] = Task("done", sid, query, context, EmptyMapping, env)]
            /\ last' = obs("raised", "ValueError")
       ELSE /\ session_context' = merged.stored
            /\ tasks' = [tasks EXCEPT ![t] = Task("awaiting", sid, query, context, merged.ctx, env)]
            /\ last' = obs("awaiting", None)
    /\ UNCHANGED <<coordinator_agent, agents, clock, ok_log, req, fb, fn, am>>

\* the rest of process_query once the awaited coordinator and specialists
\* have answered: the session update and the return, or the except branch
finish_process_query(t) ==
    /\ tasks[t].pc = "awaiting"
    /\ LET sid == tasks[t].sid
           query == tasks[t].query
           ctx == tasks[t].ctx
           env == tasks[t].env
           obs(status, exc, err, working, d, r) ==
               Observed("process_query", sid, "returned", status, exc, err, ctx,
                        tasks[t].context, working, d, r, Before(sid), Len(ok_log[sid]))
       IN
       IF query.kind = "bytes"
       THEN /\ session_context' = session_context
            /\ ok_log' = ok_log
            /\ last' = obs("error", "TypeError", "TypeError", ctx, NoRoute, NoResult)
       ELSE LET routing_decision ==
                    route_query(query.text, ctx, coordinator_agent, env.response,
                                env.fault = "model")
                result ==
                    IF Len(routing_decision.pipeline) > 0
                    THEN process_pipeline(agents, routing_decision.pipeline, query.text,
                                          env.fault = "specialist")
                    ELSE process_with_agent(agents, routing_decision.agent_type, query.text,
                                            env.fault = "specialist")
                working ==
                    [ctx EXCEPT !.has = @ \cup pipeline_context_keys(routing_decision.pipeline)]
            IN /\ session_context' =
                     _update_session_context(session_context, sid, routing_decision,
                                             result, clock)
               /\ ok_log' = [ok_log EXCEPT ![sid] =
                                Append(@, [agent_type |-> routing_decision.agent_type,
                                           time |-> clock])]
               /\ last' = obs("success", None, None, working, routing_decision, result)
    /\ tasks' = [tasks EXCEPT ![t].pc = "done"]
    /\ UNCHANGED <<coordinator_agent, agents, clock, req, fb, fn, am>>

NextTasks ==
    \/ \E t \in TaskIds, sid \in SessionIds, query \in TaskQueries,
          context \in TaskContexts, env \in TaskEnvironments :
              begin_process_query(t, sid, query, context, env)
    \/ \E t \in TaskIds : finish_process_query(t)
    \/ \E sid \in SessionIds : add_documents_to_session(sid, "info")
    \/ \E sid \in SessionIds : clear_session(sid)

-----------------------------------------------------------------------------
(* process_file_upload and parse_document_sections *)

MaxFiles == 2

SECTION_OPEN == <<"-", "-", "-", " ">>

SECTION_CLOSE == <<" ", "-", "-", "-", "\n">>

SECTION_BREAK == <<"\n", "\n">>

SECTION_SPLIT == <<"\n", "\n", "-", "-", "-", " ">>

NO_TEXT_BODY == <<"(", "C", "o", "u", "l", "d", " ", "n", "o", "t", " ", "e", "x", "t", "r", "a", "c", "t", " ", "t", "e", "x", "t", " ", "f", "r", "o", "m", " ", "t", "h", "i", "s", " ", "f", "i", "l", "e", ")">>

ERROR_PREFIX == <<"(", "e", "r", "r", "o", "r">>

\* s.startswith(p)
StartsWith(s, p) == Len(s) >= Len(p) /\ SubSeq(s, 1, Len(p)) = p

\* s.find(sub) + 1: the first position of sub in s, 0 when absent
FindSub(s, sub) ==
    IF IsSubstr(sub, s)
    THEN CHOOSE i \in 1..(Len(s) - Len(sub) + 1) :
            /\ SubSeq(s, i, i + Len(sub) - 1) = sub
            /\ \A j \in 1..(i - 1) : SubSeq(s, j, j + Len(sub) - 1) # sub
    ELSE 0

\* s.split(sep)
RECURSIVE SplitOn(_, _)
SplitOn(s, sep) ==
    LET at == FindSub(s, sep) IN
    IF at = 0 THEN << s >>
    ELSE << SubSeq(s, 1, at - 1) >> \o SplitOn(SubSeq(s, at + Len(sep), Len(s)), sep)

\* s.strip()
RECURSIVE StripText(_)
StripText(s) ==
    IF Len(s) > 0 /\ s[1] \in {" ", "\n"} THEN StripText(Tail(s))
    ELSE IF Len(s) > 0 /\ s[Len(s)] \in {" ", "\n"} THEN StripText(SubSeq(s, 1, Len(s) - 1))
    ELSE s

\* an uploaded file: its base name, whether the path exists, and what
\* extract_text returns for it
UploadedFile(filename, exists, extracted) ==
    [filename |-> filename, exists |-> exists, extracted |-> extracted]

\* one entry of all_text
Section(filename, body) == SECTION_OPEN \o filename \o SECTION_CLOSE \o body

\* the all_text list process_file_upload builds
RECURSIVE all_text(_)
all_text(files) ==
    IF Len(files) = 0 THEN <<>>
    ELSE LET file_obj == Head(files)
             extracted_text == file_obj.extracted
             mine == IF ~file_obj.exists THEN <<>>
                     ELSE IF Len(extracted_text) > 0 /\ ~StartsWith(extracted_text, ERROR_PREFIX)
                     THEN << Section(file_obj.filename, extracted_text) >>
                     ELSE << Section(file_obj.filename, NO_TEXT_BODY) >>
         IN mine \o all_text(Tail(files))

process_file_upload(files) ==
    [combined_text |-> Join(SECTION_BREAK, all_text(files)),
     ok |-> Len(all_text(files)) > 0]

\* the pairs kept among the sections of the split text
RECURSIVE SectionPairs(_)
SectionPairs(sections) ==
    IF Len(sections) = 0 THEN <<>>
    ELSE LET section == IF StartsWith(Head(sections), SECTION_OPEN)
                        THEN SubSeq(Head(sections), 5, Len(Head(sections)))
                        ELSE Head(sections)
             at == FindSub(section, SECTION_CLOSE)
             mine == IF at = 0 THEN <<>>
                     ELSE << [filename |-> SubSeq(section, 1, at - 1),
                              content |-> StripText(SubSeq(section, at + Len(SECTION_CLOSE),
                                                           Len(section)))] >>
         IN mine \o SectionPairs(Tail(sections))

parse_document_sections(doc_text) ==
    IF Len(doc_text) = 0 THEN <<>>
    ELSE SectionPairs(SplitOn(doc_text, SECTION_SPLIT))

f_lease == <<"a", ".", "p", "d", "f">>

f_loan == <<"b", ".", "p", "d", "f">>

t_rent == <<"R", "e", "n", "t", ":", " ", "5">>

t_error == <<"(", "e", "r", "r", "o", "r", " ", "e", "x", "t", "r", "a", "c", "t", "i", "n", "g", " ", "t", "e", "x", "t", ":", " ", "b", "a", "d", " ", "f", "i", "l", "e", ")">>

t_pages == <<"I", "n", "t", "r", "o", "\n", "\n", "-", "-", "-", " ", "P", "a", "g", "e", " ", "2", " ", "-", "-", "-", "\n", "M", "o", "r", "e">>

t_rule == <<"I", "n", "t", "r", "o", "\n", "\n", "-", "-", "-", " ", "\n", "M", "o", "r", "e">>

\* what extract_text gives for an existing file: text, nothing, its error
\* text, text with a line that looks like a section header, text with a rule
ExtractedTexts == { t_rent, <<>>, t_error, t_pages, t_rule }

UploadedFiles ==
    { UploadedFile(filename, TRUE, extracted) :
        filename \in {f_lease, f_loan}, extracted \in ExtractedTexts }
      \cup { UploadedFile(f_lease, FALSE, <<>>) }

Uploading(pc, files, upload, sections) ==
    [pc |-> pc, files |-> files, upload |-> upload, sections |-> sections]

call_process_file_upload ==
    /\ fn.pc = "files"
    /\ fn' = [fn EXCEPT
                !.pc = "parsed",
                !.upload = process_file_upload(fn.files),
                !.sections = parse_document_sections(process_file_upload(fn.files).combined_text)]
    /\ UNCHANGED <<orchVars, req, fb, am, tasks>>

NextUpload == call_process_file_upload

-----------------------------------------------------------------------------
(* ErrorHandler.handle_agent_error *)

MaxWords == 3

w_429 == <<"4", "2", "9">>

w_exhausted == <<"R", "E", "S", "O", "U", "R", "C", "E", "_", "E", "X", "H", "A", "U", "S", "T", "E", "D">>

w_invalid == <<"I", "N", "V", "A", "L", "I", "D", "_", "A", "R", "G", "U", "M", "E", "N", "T">>

w_denied == <<"P", "E", "R", "M", "I", "S", "S", "I", "O", "N", "_", "D", "E", "N", "I", "E", "D">>

w_unavailable == <<"U", "N", "A", "V", "A", "I", "L", "A", "B", "L", "E">>

w_boom == <<"b", "o", "o", "m">>

ErrorWords == { w_429, w_exhausted, w_invalid, w_denied, w_unavailable, w_boom }

\* str(error) for the errors tried: up to MaxWords words separated by blanks
ErrorTexts == { Join(<<" ">>, words) : words \in SeqsUpTo(ErrorWords, MaxWords) }

HANDLER_RATE_LIMIT_MESSAGE == "Rate limit exceeded. Please try again in a moment."

\* the message handed back: a fixed text, or a text followed by str(error)
Message(text, error) == [text |-> text, error |-> error]

\* variant of handle_agent_error: INVALID_ARGUMENT is tested before the rate limit
handler_invalid_argument_first(error_str) ==
    IF IsSubstr(w_invalid, error_str)
    THEN Message("Invalid request format. Please check your input.", <<>>)
    ELSE IF IsSubstr(w_429, error_str) \/ IsSubstr(w_exhausted, error_str)
    THEN Message(HANDLER_RATE_LIMIT_MESSAGE, <<>>)
    ELSE Message("An unexpected error occurred: ", error_str)

handle_agent_error(error_str) ==
    IF IsSubstr(w_429, error_str) \/ IsSubstr(w_exhausted, error_str)
    THEN Message(HANDLER_RATE_LIMIT_MESSAGE, <<>>)
    ELSE IF IsSubstr(w_invalid, error_str)
    THEN Message("Invalid request format. Please check your input.", <<>>)
    ELSE IF IsSubstr(w_denied, error_str)
    THEN Message("Access denied. Please check your credentials.", <<>>)
    ELSE IF IsSubstr(w_unavailable, error_str)
    THEN Message("Service temporarily unavailable. Please try again later.", <<>>)
    ELSE Message("An unexpected error occurred: ", error_str)

Handling(pc, error_str, message) == [pc |-> pc, error_str |-> error_str, message |-> message]

call_handle_agent_error ==
    /\ fn.pc = "error"
    /\ fn' = [fn EXCEPT !.pc = "handled", !.message = handle_agent_error(fn.error_str)]
    /\ UNCHANGED <<orchVars, req, fb, am, tasks>>

NextError == call_handle_agent_error

-----------------------------------------------------------------------------
(* Properties of the orchestrator's sessions (specification Spec) *)

\* the stored session of sid, as a call would find it
Stored(sid) == _get_session_context(session_context, sid)[sid]

\* C1 (session continuity): in every session the stored history has one entry
\* per successful process_query call made since the session was last cleared,
\* in call order (so two sequential successful calls leave a history of
\* length 2), and the context the router sees on a call that follows a
\* successful one has previous_agent equal to the agent_type the routing
\* decision of that preceding call resolved.
C1_SessionContinuity ==
    /\ \A sid \in SessionIds :
         LET history == Stored(sid).history IN
         /\ Len(history) = Len(ok_log[sid])
         /\ \A i \in 1..Len(history) :
               /\ history[i].routing_decision.agent_type = ok_log[sid][i].agent_type
               /\ history[i].timestamp = ok_log[sid][i].time
         /\ \A i, j \in 1..Len(history) :
               i < j => history[i].timestamp <= history[j].timestamp
    /\ (last.op = "process_query" /\ last.status = "success" /\ last.prior_ok >= 1)
          => last.seen.previous_agent = ok_log[last.sid][last.prior_ok].agent_type

\* two sequential successful calls on one session, the second just made
C1_TwoCallsMade ==
    /\ last.op = "process_query" /\ last.status = "success" /\ last.prior_ok = 1
    /\ Len(Stored(last.sid).history) = 2
    /\ Stored(last.sid).history[1].routing_decision.agent_type
          # Stored(last.sid).history[2].routing_decision.agent_type

C3_NeverPropagates ==
    (last.op = "process_query" /\ last.exception # None)
       => /\ last.outcome = "returned"
          /\ last.status = "error"
          /\ last.error = last.exception

-----------------------------------------------------------------------------
(* Properties of the document pipeline (specification SpecPdf) *)

SENTINEL == <<Text(RATE_LIMIT_MESSAGE)>>

\* the extraction call issued for document k
ExtractionCall(k) ==
    CHOOSE c \in {req.calls[i] : i \in 1..Len(req.calls)} :
        c.agent = "information_extractor" /\ c.doc = k

\* the extraction response for document k yields rows of its own
YieldsRows(k) ==
    LET data == parse_json_response(ExtractionCall(k).response) IN
    IsMapping(data) /\ Len(Get(data, "extractions", <<>>)) > 0

\* C4 (rate-limit short-circuit): once the extraction call for document k has
\* returned the rate-limit sentinel, the request is over with that call as its
\* last one, no extraction call was issued for a document after k, and the
\* result handed back is a text holding none of the records produced for the
\* documents before k.
C4_RateLimitShortCircuit ==
    req.sentinel_at # 0
       => /\ req.pc = "done" /\ req.outcome = "returned"
          /\ req.calls[Len(req.calls)] =
                Call("information_extractor", req.sentinel_at, SENTINEL)
          /\ \A i \in 1..Len(req.calls) :
                req.calls[i].agent = "information_extractor"
                   => req.calls[i].doc <= req.sentinel_at
          /\ req.result.type = "text" /\ req.result.report = NoReport
          /\ req.result.text \in {SENTINEL, <<Text(NO_EXTRACTION_MESSAGE)>>}

\* the second of three documents is rate limited after the first gave rows
C4_SecondDocumentLimited ==
    /\ req.sentinel_at = 2 /\ Len(req.pdf_contents) = 3
    /\ req.entry = "route_request"
    /\ YieldsRows(1)

\* C5 as stated: when an extraction call returns the rate-limit sentinel,
\* PDFProcessor.process_comparison hands back that same sentinel string.
C5_ResultIsSentinel ==
    (req.sentinel_at # 0 /\ req.entry \in {"route_request", "process_comparison"}
        /\ req.pc = "done")
       => req.result = TextResult(SENTINEL)

\* C5 as the code has it: when an extraction call returns the rate-limit
\* sentinel, PDFProcessor.process_comparison hands back its own fixed message
\* "Could not extract information from the documents due to rate limits.
\* Please try again later.", which is not the adapter's sentinel string.
C5_ResultIsNoExtractionMessage ==
    (req.sentinel_at # 0 /\ req.entry \in {"route_request", "process_comparison"}
        /\ req.pc = "done")
       => /\ req.result = TextResult(<<Text(NO_EXTRACTION_MESSAGE)>>)
          /\ req.result # TextResult(SENTINEL)

\* process_comparison called directly, its first document rate limited
C5_FirstDocumentLimited ==
    /\ req.sentinel_at = 1 /\ req.entry = "process_comparison" /\ req.pc = "done"
    /\ Len(req.calls) = 2

\* C6 as stated: when the coordinator's classification call or the
\* question-generation call returns the rate-limit sentinel, the request ends
\* with the rate-limit message and no later adapter call is made.
C6_SentinelAborts ==
    \A i \in 1..Len(req.calls) :
        (req.calls[i].agent \in {"coordinator", "question_generator"}
            /\ req.calls[i].response = SENTINEL)
           => /\ i = Len(req.calls)
              /\ req.pc = "done"
              /\ req.result = TextResult(SENTINEL)

\* C7 as stated: when no extraction call returns the rate-limit sentinel, the
\* extraction step returns exactly one record per input document, named after
\* the input documents in input order, whatever the responses were.
C7_DocumentIsolation ==
    (req.extraction \notin {"none", "running"} /\ req.sentinel_at = 0)
       => /\ req.extraction = "returned"
          /\ Len(req.all_extractions) = Len(req.pdf_contents)
          /\ \A i \in 1..Len(req.pdf_contents) :
                req.all_extractions[i].document_name = req.pdf_contents[i].name

C9_FallbackCompleteness ==
    req.generation # "none"
       => /\ req.generation = "returned"
          /\ Len(req.questions) > 0

-----------------------------------------------------------------------------
(* Properties of the fallback banks (specification SpecBank) *)

\* a word of `words` occurs in the lower-cased prompt or a lower-cased document
Occurs(words) ==
    \E word \in words :
        \/ IsSubstr(word, Lower(fb.prompt))
        \/ \E i \in 1..Len(fb.pdf_contents) :
              IsSubstr(word, Lower(fb.pdf_contents[i].content))

\* C10 (first match wins): get_fallback_questions returns exactly one of the
\* four banks of 8 questions: the lease bank when a lease word occurs, even
\* when contract or policy words occur too; else the contract bank when a
\* contract word occurs; else the policy bank when a policy word occurs; the
\* generic bank only when no word of any set occurs.
C10_FirstMatchBank ==
    fb.pc = "done"
       => /\ fb.questions \in {FALLBACK_LEASE, FALLBACK_CONTRACT, FALLBACK_POLICY,
                               FALLBACK_GENERIC}
          /\ Len(fb.questions) = 8
          /\ Cardinality({FALLBACK_LEASE, FALLBACK_CONTRACT, FALLBACK_POLICY,
                          FALLBACK_GENERIC}) = 4
          /\ Occurs(lease_words) => fb.questions = FALLBACK_LEASE
          /\ (~Occurs(lease_words) /\ Occurs(contract_words))
                => fb.questions = FALLBACK_CONTRACT
          /\ (~Occurs(lease_words) /\ ~Occurs(contract_words) /\ Occurs(policy_words))
                => fb.questions = FALLBACK_POLICY
          /\ fb.questions = FALLBACK_GENERIC
                <=> ~Occurs(lease_words \cup contract_words \cup policy_words)

\* the prompt "Compare these lease agreements", which holds a lease word and a
\* contract word, with a document holding a policy word
C10_LeaseBeatsContract ==
    /\ fb.pc = "done" /\ fb.prompt = p_lease
    /\ Occurs(lease_words) /\ Occurs(contract_words) /\ Occurs(policy_words)
    /\ fb.questions = FALLBACK_LEASE

-----------------------------------------------------------------------------
(* Properties of routing (specification SpecRoute) *)

\* the documents test of the fast rules, on the context handed to route_query
DocsFlagged ==
    \/ ("documents_uploaded" \in fn.ctx.has /\ fn.ctx.documents_uploaded)
    \/ ("has_documents" \in fn.ctx.has /\ fn.ctx.has_documents)

\* which fast rules match the query and context, in the order of the rules
RuleMatches ==
    LET query_lower == Lower(fn.query) IN
    << MathPattern(query_lower),
       (\E k \in comparison_keywords : IsSubstr(k, query_lower)) /\ DocsFlagged,
       IsSubstr(kw_generate_question, query_lower)
          \/ IsSubstr(kw_create_question, query_lower),
       (\E k \in extract_keywords : IsSubstr(k, query_lower)) /\ DocsFlagged >>

\* the agent and pipeline each fast rule decides
RuleOutcomes ==
    << [agent_type |-> "general_knowledge", pipeline |-> <<>>],
       [agent_type |-> "document_comparison",
        pipeline |-> <<"information_extractor", "document_comparison", "comparison_analyst">>],
       [agent_type |-> "question_generator",
        pipeline |-> <<"information_extractor", "question_generator">>],
       [agent_type |-> "information_extractor", pipeline |-> <<"information_extractor">>] >>

\* C11 (fast-path determinism): a query matching a numeric/equation pattern is
\* routed to general_knowledge with an empty pipeline and without a model
\* call, whatever the coordinator's initialization state, the context flags
\* and the answer the model would have given.
C11_MathFastPath ==
    (fn.pc = "routed" /\ RuleMatches[1])
       => /\ fn.decision.agent_type = "general_knowledge"
          /\ fn.decision.pipeline = <<>>
          /\ fn.model_calls = 0

\* "What is 5 + 3?" routed with documents flagged, the coordinator initialized
\* and a model that would have answered DOCUMENT_COMPARISON
C11_MathDespiteDocuments ==
    /\ fn.pc = "routed" /\ fn.query = q_math
    /\ fn.agent /\ ~fn.modelFails /\ DocsFlagged
    /\ _parse_routing_response(fn.response).agent_type = "document_comparison"
    /\ fn.decision.agent_type = "general_knowledge"

\* C12 (fast-path tie-break): the fast rules are tried in the order math,
\* comparison with documents, question generation, extraction with documents;
\* the decision is that of the first rule that matches, for every combination
\* of matching rules, and no rule decides when none matches.
C12_FirstRuleWins ==
    fn.pc = "routed"
       => LET m == RuleMatches IN
          /\ \A i \in 1..4 :
                (m[i] /\ \A j \in 1..(i-1) : ~m[j])
                   => /\ fn.quick_route.agent_type = RuleOutcomes[i].agent_type
                      /\ fn.quick_route.pipeline = RuleOutcomes[i].pipeline
                      /\ fn.decision = fn.quick_route
          /\ (\A i \in 1..4 : ~m[i]) => fn.quick_route = NoRoute

\* a query with "compare" and "create question", documents uploaded: the
\* comparison rule decides although the question rule matches too
C12_CompareBeatsQuestions ==
    /\ fn.pc = "routed" /\ fn.query = q_cmp_genq
    /\ RuleMatches[2] /\ RuleMatches[3]
    /\ fn.decision.agent_type = "document_comparison"
    /\ fn.decision.pipeline =
          <<"information_extractor", "document_comparison", "comparison_analyst">>

\* C13 as stated: every decision route_query returns, on the fast path, the
\* model path or the failure path and for every model response, has an empty
\* pipeline if and only if its agent_type is general_knowledge.
C13_PipelineIffSpecialist ==
    fn.pc = "routed"
       => (fn.decision.pipeline = <<>> <=> fn.decision.agent_type = "general_knowledge")

\* C14 as stated: when no fast rule matches and the model call errors, the
\* decision is document_comparison for documents present and a comparison
\* keyword, information_extractor for documents present otherwise, and
\* general_knowledge for no documents, documents being present when the
\* context says so by documents_uploaded or by has_documents.
C14_FailurePathByDocuments ==
    (fn.pc = "routed" /\ fn.quick_route = NoRoute /\ fn.agent /\ fn.modelFails)
       => fn.decision.agent_type =
             IF DocsFlagged
             THEN IF \E k \in comparison_keywords : IsSubstr(k, Lower(fn.query))
                  THEN "document_comparison"
                  ELSE "information_extractor"
             ELSE "general_knowledge"

-----------------------------------------------------------------------------
(* Properties of the classification step (specification SpecPdf) *)

\* the response holds no task_type the parser can hand over
NoTaskType(response) ==
    LET data == parse_json_response(response) IN
    ~(IsMapping(data) /\ "task_type" \in data.has)

\* C15 as stated, for the JSON variant: a coordinator response without a
\* parsable task_type yields task type "general", so the request goes on as a
\* general query.
C15_MissingTaskTypeIsGeneral ==
    (Len(req.calls) >= 1 /\ req.calls[1].agent = "coordinator"
        /\ NoTaskType(req.calls[1].response))
       => \/ req.pc = "general"
          \/ (Len(req.calls) >= 2 /\ req.calls[2].agent = "general")

-----------------------------------------------------------------------------
(* Claims about pipelines *)

StageResult(i) == process_with_agent(fn.registry, fn.pipeline[i], fn.query, fn.fails)

\* C16: for a pipeline s1..sn every stage is invoked exactly once and in list
\* order; stage i > 1 is handed a context whose last_agent_result is the result
\* of stage i-1 and whose previous_results are the results of stages 1..i-1 in
\* order; individual_results lists the n stage results in stage order.
C16_StagesInOrderWithFolding ==
    fn.pc = "piped" =>
        LET n == Len(fn.pipeline)
            invocations == fn.loop.invocations
            individual_results == fn.result.individual_results
        IN /\ Len(invocations) = n
           /\ Len(individual_results) = n
           /\ \A i \in 1..n :
                /\ invocations[i].agent_type = fn.pipeline[i]
                /\ individual_results[i] = StageResult(i)
                /\ i > 1 =>
                     /\ {"previous_results", "last_agent_result"}
                            \subseteq invocations[i].context.has
                     /\ invocations[i].context.last_agent_result = StageResult(i - 1)
                     /\ invocations[i].context.previous_results
                            = [j \in 1..(i - 1) |-> StageResult(j)]

\* a three-stage pipeline whose stages gave three different results has run
C16_ThreeDistinctStagesRan ==
    /\ fn.pc = "piped"
    /\ Len(fn.pipeline) = 3
    /\ Len(fn.loop.invocations) = 3
    /\ Cardinality({ fn.result.individual_results[i] : i \in 1..3 }) = 3

\* C17: the pipeline response is the bare response of the only stage when one
\* stage ran; with more stages it holds every stage's response in stage order,
\* each under its number and its agent heading, none omitted or reordered.
C17_ResponseComposition ==
    (fn.pc = "piped" /\ Len(fn.pipeline) >= 1) =>
        LET n == Len(fn.pipeline)
            response == fn.result.response
        IN IF n = 1 THEN response = StageResult(1).response
           ELSE /\ response.fmt = "combined"
                /\ response.query = fn.query
                /\ Len(response.parts) = n
                /\ \A i \in 1..n :
                     /\ response.parts[i].index = i
                     /\ response.parts[i].heading = UpperName(StageResult(i).agent_type)
                     /\ response.parts[i].response = StageResult(i).response

\* a combined response of three parts with three different stage responses
C17_ThreePartsCombined ==
    /\ fn.pc = "piped"
    /\ Len(fn.pipeline) = 3
    /\ fn.result.response.fmt = "combined"
    /\ Cardinality({ fn.result.response.parts[i].response : i \in 1..3 }) = 3

-----------------------------------------------------------------------------
(* Claims about the caller's context *)

PipelineKeysAdded == {"previous_results", "last_agent_result"}

\* C18: the caller's context is merged for the current call only. After
\* process_query returns, the stored session has the keys, documents_uploaded
\* and other values it had before the call (a session not stored yet counting
\* as the default one), without caller-supplied or pipeline-added keys; only
\* history and previous_agent may differ. A call whose own context carries no
\* documents_uploaded lets the router see the stored value, whatever earlier
\* calls passed.
C18_CallerContextNotStored ==
    (last.op = "process_query" /\ last.outcome = "returned") =>
        LET stored == session_context[last.sid]
        IN /\ stored.has = last.before.has
           /\ stored.documents_uploaded = last.before.documents_uploaded
           /\ stored.has_documents = last.before.has_documents
           /\ stored.document_info = last.before.document_info
           /\ stored.has \cap PipelineKeysAdded = {}
           /\ "documents_uploaded" \notin last.context.has
                => last.seen.documents_uploaded = last.before.documents_uploaded

\* a call without context follows, in the same session, a call that was given
\* documents_uploaded = true and ran a pipeline; its router sees no documents
C18_UploadFlagGoneOnNextCall ==
    /\ last.op = "process_query"
    /\ last.outcome = "returned"
    /\ last.status = "success"
    /\ last.context.kind = "none"
    /\ ~last.seen.documents_uploaded
    /\ Len(last.before.history) = 1
    /\ Len(last.before.history[1].routing_decision.pipeline) > 0
    /\ ~session_context[last.sid].documents_uploaded

-----------------------------------------------------------------------------
(* Claims about key differences *)

QuestionsAsked ==
    UNION { { fn.extractions[k].extractions[i].question :
                  i \in 1..Len(fn.extractions[k].extractions) } :
            k \in 1..Len(fn.extractions) }

Answered(k, q) ==
    \E i \in 1..Len(fn.extractions[k].extractions) : fn.extractions[k].extractions[i].question = q

\* the answer document k gives to q (its last one when it answers q twice)
AnswerOfDocument(k, q) ==
    LET rows == fn.extractions[k].extractions
        at == CHOOSE i \in 1..Len(rows) :
                 /\ rows[i].question = q
                 /\ \A j \in (i + 1)..Len(rows) : rows[j].question # q
    IN rows[at].answer

Answering(q) == { k \in 1..Len(fn.extractions) : Answered(k, q) }

AnsweredDifferently(q) == Cardinality({ AnswerOfDocument(k, q) : k \in Answering(q) }) > 1

EntriesFor(q) == { i \in 1..Len(fn.differences) : fn.differences[i].question = q }

\* C19: find_key_differences emits exactly one entry for each question text
\* that got more than one distinct answer among the documents that answered
\* it, the entry naming every such document with its answer, and no entry for
\* a question all its documents answered identically; the grouping is by
\* question text, not by position.
C19_OneEntryPerDifferingQuestion ==
    fn.pc = "compared" =>
        \A q \in QuestionsAsked :
            IF AnsweredDifferently(q)
            THEN /\ Cardinality(EntriesFor(q)) = 1
                 /\ \A i \in EntriesFor(q) : \A k \in Answering(q) :
                       \E a \in 1..Len(fn.differences[i].answers) :
                           /\ fn.differences[i].answers[a].doc = fn.extractions[k].document_name
                           /\ fn.differences[i].answers[a].answer = AnswerOfDocument(k, q)
            ELSE EntriesFor(q) = {}

-----------------------------------------------------------------------------
(* Claims about the parser *)

\* the text of the first fenced block: after the opening fence, up to the next fence
FencedCandidate ==
    LET open == FindFirst(fn.response, IsFenceJson, 1)
        close == FindFirst(fn.response, IsFence, open + 1)
    IN IF open # 0 /\ close # 0
       THEN [exists |-> TRUE, text |-> SubSeq(fn.response, open + 1, close - 1)]
       ELSE [exists |-> FALSE, text |-> <<>>]

\* the text from the first '{' to the last '}'
BareCandidate ==
    LET first == FindFirst(fn.response, HasOpenBrace, 1)
        final == FindLast(fn.response, HasCloseBrace)
    IN IF first # 0 /\ final # 0
       THEN [exists |-> TRUE, text |-> SubSeq(fn.response, first, final)]
       ELSE [exists |-> FALSE, text |-> <<>>]

ValidObject(candidate) == candidate.exists /\ json_loads(candidate.text).kind = "map"

\* C20: parse_json_response returns a mapping for every input; when the input
\* holds a valid JSON object, in a fenced block or bare between the first '{'
\* and the last '}', the result is that object; when there is no candidate or
\* the candidate does not parse, the result is the empty mapping.
C20_ParserSafety ==
    fn.pc = "parsed" =>
        /\ IsMapping(fn.parsed)
        /\ IF ValidObject(FencedCandidate)
           THEN fn.parsed = json_loads(FencedCandidate.text)
           ELSE IF ValidObject(BareCandidate)
           THEN fn.parsed = json_loads(BareCandidate.text)
           ELSE fn.parsed = EmptyObject

-----------------------------------------------------------------------------
(* Claims about the agent invocation adapter *)

AdapterTexts ==
    { <<Text("It is 8.")>>, <<Text("(no response)")>>, <<Text(RATE_LIMIT_MESSAGE)>>,
      <<Text("Error: "), Text("connection reset")>> }

\* C21: run_agent never raises past its boundary; every failure during the
\* invocation, the lazy initialization of agents and runner included, comes
\* back as a string: the rate-limit sentinel, "Error: <message>", or on
\* success the model text.
C21_AdapterNeverRaises ==
    \A c \in DOMAIN am.calls :
        am.calls[c].pc = "done" =>
            /\ am.calls[c].outcome = "returned"
            /\ am.calls[c].text \in AdapterTexts

AllCallsDone ==
    /\ DOMAIN am.calls # {}
    /\ \A c \in DOMAIN am.calls : am.calls[c].pc = "done"

\* C26: under any interleaving of concurrent run_agent calls, once all calls
\* have completed the runner's agent is again the coordinator it held before
\* the first call, and the invocation of a call for persona P is executed
\* with the runner's agent equal to P.
C26_RunnerAgentRestored ==
    /\ (AllCallsDone /\ am.initialized) => am.runner_agent = "coordinator"
    /\ \A c \in DOMAIN am.calls :
          am.calls[c].pc \in {"running", "done"} /\ am.calls[c].outcome # "raised"
              => am.calls[c].ran_with = am.calls[c].agent

-----------------------------------------------------------------------------
(* Claims about sessions under overlapping calls *)

\* what the store holds for a session id, absence included
StoredState(sc, sid) ==
    IF sid \in DOMAIN sc THEN [present |-> TRUE, session |-> sc[sid]]
    ELSE [present |-> FALSE, session |-> EmptyMapping]

OthersUntouched ==
    \A B \in SessionIds :
        B # last'.sid => StoredState(session_context', B) = StoredState(session_context, B)

\* C22: every step of a process_query, add_documents_to_session or
\* clear_session on session id A, succeeding or failing, leaves the stored
\* state of every other session id B unchanged, whatever the interleaving.
C22_SessionIsolation == [][OthersUntouched]_vars

\* the first call, on one session, fails after a call on another session has
\* started and completed during its await; that session keeps what it stored
C22_FailureAroundOtherSession ==
    /\ last.op = "process_query"
    /\ last.status = "error"
    /\ tasks[1].pc = "done"
    /\ tasks[1].sid = last.sid
    /\ tasks[2].pc = "done"
    /\ tasks[2].sid # last.sid
    /\ tasks[2].sid \in DOMAIN session_context
    /\ Len(session_context[tasks[2].sid].history) = 1
    /\ session_context[tasks[2].sid].documents_uploaded

\* C27: every stored session record has the four default fields, and its
\* history is as long as the number of process_query calls on its id that
\* completed successfully since it was created or last cleared, under any
\* interleaving on the same id, a clear_session during an awaiting
\* process_query included.
C27_RecordsCompleteUnderRaces ==
    \A sid \in DOMAIN session_context :
        /\ DefaultKeys \subseteq session_context[sid].has
        /\ Len(session_context[sid].history) = Len(ok_log[sid])

-----------------------------------------------------------------------------
(* Claims about upload and re-parsing *)

AllFilesExist == \A i \in 1..Len(fn.files) : fn.files[i].exists

ExpectedBody(file) ==
    IF Len(file.extracted) = 0 \/ StartsWith(file.extracted, ERROR_PREFIX)
    THEN NO_TEXT_BODY ELSE file.extracted

\* C23: for uploaded files that exist, process_file_upload emits one section
\* per file, with the placeholder body when extraction fails or yields no
\* text, and parse_document_sections of the combined text returns one
\* (filename, body) pair per file, the filenames in upload order.
C23_DocumentCountPreserved ==
    (fn.pc = "parsed" /\ AllFilesExist) =>
        /\ fn.upload.combined_text =
              Join(SECTION_BREAK,
                   [i \in 1..Len(fn.files) |->
                      Section(fn.files[i].filename, ExpectedBody(fn.files[i]))])
        /\ Len(fn.sections) = Len(fn.files)
        /\ \A i \in 1..Len(fn.files) : fn.sections[i].filename = fn.files[i].filename

-----------------------------------------------------------------------------
(* Claims about error classification *)

RateLimitText == IsSubstr(w_429, fn.error_str) \/ IsSubstr(w_exhausted, fn.error_str)

OtherMarkerText ==
    \/ IsSubstr(w_invalid, fn.error_str)
    \/ IsSubstr(w_denied, fn.error_str)
    \/ IsSubstr(w_unavailable, fn.error_str)

\* C24: handle_agent_error returns the adapter's sentinel string for every
\* error whose text contains "429" or "RESOURCE_EXHAUSTED", also when the text
\* contains INVALID_ARGUMENT, PERMISSION_DENIED or UNAVAILABLE, and it returns
\* a message for every error.
C24_UniformRateLimit ==
    fn.pc = "handled" =>
        /\ fn.message.text # None
        /\ RateLimitText => fn.message = Message(RATE_LIMIT_MESSAGE, <<>>)

\* an error text with a rate-limit marker after another marker was handled
C24_RateLimitAmongMarkers ==
    /\ fn.pc = "handled"
    /\ RateLimitText
    /\ OtherMarkerText
    /\ fn.message.text = RATE_LIMIT_MESSAGE

-----------------------------------------------------------------------------
(* Claims about the entry to the comparison pipeline *)

\* the comparison pipeline was entered with enough documents: its first
\* agent call, the question generator's, was made
ComparisonEntered == req.generation # "none"

\* the request was answered by _handle_general_query
GeneralAnswered ==
    /\ req.outcome = "returned"
    /\ Len(req.calls) = 2
    /\ req.calls[2].agent = "general"
    /\ req.result = TextResult(req.calls[2].response)

ClassifiedAsComparison ==
    /\ Len(req.calls) >= 1
    /\ req.calls[1].agent = "coordinator"
    /\ IsMapping(parse_json_response(req.calls[1].response))
    /\ Get(parse_json_response(req.calls[1].response), "task_type", "general") = "pdf_comparison"

\* C25: process_comparison with fewer than 2 documents returns the "need at
\* least 2" message without any agent call; route_request enters the
\* comparison pipeline only when the task type is pdf_comparison and at least
\* 2 documents are supplied, and otherwise answers through the general step.
C25_ComparisonNeedsTwoDocuments ==
    /\ (req.entry = "process_comparison" /\ Len(req.pdf_contents) < 2 /\ req.pc # "idle")
          => /\ req.pc = "done"
             /\ req.result = TextResult(<<Text(NEED_TWO_MESSAGE)>>)
             /\ req.calls = <<>>
    /\ (req.entry = "route_request" /\ req.pc = "done")
          => IF ComparisonEntered
             THEN ClassifiedAsComparison /\ Len(req.pdf_contents) >= 2
             ELSE GeneralAnswered

-----------------------------------------------------------------------------
(* Claims about failing pipeline stages *)

PipelineCallReturned ==
    /\ last.op = "process_query"
    /\ last.outcome = "returned"
    /\ last.routing_decision # NoRoute
    /\ Len(last.routing_decision.pipeline) > 0

\* C28: process_pipeline does not abort on a failing stage: when a stage
\* returns a result with status "error", every remaining stage is still
\* invoked, the pipeline result has status "success", and process_query
\* reports status "success".
C28_PipelineOutlivesFailingStage ==
    PipelineCallReturned =>
        /\ last.status = "success"
        /\ last.result.status = "success"
        /\ Len(last.result.individual_results) = Len(last.routing_decision.pipeline)
        /\ \A i \in 1..Len(last.routing_decision.pipeline) :
              last.result.individual_results[i].status \in {"success", "error"}

\* a pipeline of several stages whose first stage reported an error has returned
C28_FirstStageFailed ==
    /\ PipelineCallReturned
    /\ Len(last.routing_decision.pipeline) >= 2
    /\ last.result.individual_results[1].status = "error"
    /\ last.status = "success"

-----------------------------------------------------------------------------
(* Claims about the system before and after initialize *)

RoutedTexts == { q.text : q \in { x \in Queries : x.kind = "str" } }

\* what route_query gives when only the fast path and the fallback rule decide
RuleDecision(query, ctx) ==
    IF _quick_route_analysis(query, ctx) # NoRoute
    THEN _quick_route_analysis(query, ctx)
    ELSE _fallback_routing(query, ctx)

NotFoundResult(agent_type) ==
    [agent_type |-> agent_type,
     response |-> [fmt |-> "not_found", who |-> agent_type, query |-> <<>>],
     status |-> "error"]

\* with the coordinator's agent unset: the registry is empty, no routing takes
\* the model path, and every specialist invocation is a "not found" error
BeforeInitialize ==
    ~coordinator_agent =>
        /\ agents = EmptyRegistry
        /\ \A query \in RoutedTexts, ctx \in RouteContexts, env \in Environments :
              /\ route_query(query, ctx, coordinator_agent, env.response, env.fault = "model")
                    = RuleDecision(query, ctx)
              /\ route_query_calls(query, ctx, coordinator_agent) = 0
        /\ \A agent_type \in AgentType, query \in RoutedTexts, fails \in BOOLEAN :
              process_with_agent(agents, agent_type, query, fails) = NotFoundResult(agent_type)

AfterInitialize ==
    coordinator_agent => \A agent_type \in AgentType : agent_type \in DOMAIN agents

\* the agent and the registry change only in a step of initialize that
\* returns, and such a step leaves the agent set and all five types registered
OnlyInitializeSets ==
    /\ (coordinator_agent' # coordinator_agent \/ agents' # agents)
          => (last'.op = "initialize" /\ last'.outcome = "returned")
    /\ (last'.op = "initialize" /\ last'.outcome = "returned")
          => (coordinator_agent' /\ \A agent_type \in AgentType : agent_type \in DOMAIN agents')
    /\ (last'.op = "initialize" /\ last'.outcome = "raised")
          => (coordinator_agent' = coordinator_agent /\ agents' = agents)

\* C29: until initialize() has completed, the coordinator's agent is unset and
\* the registry is empty, so route_query never takes the model path (a query
\* the fast path does not decide is decided by the fallback rule) and every
\* specialist invocation returns the "not found" result with status "error";
\* after initialize() all five specialist types resolve to an agent.
C29_NothingBeforeInitialize ==
    /\ [](BeforeInitialize /\ AfterInitialize)
    /\ [][OnlyInitializeSets]_vars

\* a query answered before any initialize completed, after one that raised or none
C29_QueryBeforeInitialize ==
    /\ ~coordinator_agent
    /\ last.op = "process_query"
    /\ last.outcome = "returned"
    /\ last.routing_decision # NoRoute
    /\ last.result.status = "error"
    /\ clock >= 2

-----------------------------------------------------------------------------
(* Claims about the documents flag of a session *)

\* the stored record right after add_documents_to_session: the flag and the
\* document info are set, every other field is the one the call started from
\* (the default fields when the session was absent)
DocumentsAdded ==
    last.op = "add_documents_to_session" =>
        /\ last.sid \in DOMAIN session_context
        /\ LET s == session_context[last.sid] IN
              /\ s.documents_uploaded
              /\ s.has = last.before.has \cup {"document_info"}
              /\ DefaultKeys \subseteq s.has
              /\ s.history = last.before.history
              /\ s.previous_agent = last.before.previous_agent

SessionCleared ==
    last.op = "clear_session" => last.sid \notin DOMAIN session_context

\* a flag that is set stays set in every step but clear_session of that session
FlagKept ==
    \A sid \in SessionIds :
        (sid \in DOMAIN session_context /\ session_context[sid].documents_uploaded) =>
            IF last'.op = "clear_session" /\ last'.sid = sid
            THEN sid \notin DOMAIN session_context'
            ELSE /\ sid \in DOMAIN session_context'
                 /\ session_context'[sid].documents_uploaded
                 /\ "documents_uploaded" \in session_context'[sid].has

\* the first access to an absent session starts from the default fields
FreshOnAccess ==
    \A sid \in SessionIds :
        (sid \notin DOMAIN session_context /\ sid \in DOMAIN session_context') =>
            /\ last'.sid = sid
            /\ last'.before = DefaultSession
            /\ CASE last'.op = "get_session_history" ->
                      /\ last'.result.history = <<>>
                      /\ session_context'[sid] = DefaultSession
                 [] last'.op = "add_documents_to_session" ->
                      /\ session_context'[sid].history = <<>>
                      /\ session_context'[sid].previous_agent = None
                 [] last'.op = "process_query" ->
                      /\ ~session_context'[sid].documents_uploaded
                      /\ Len(session_context'[sid].history) <= 1
                      /\ (last'.outcome = "returned" /\ last'.context.kind = "none")
                            => last'.seen = DefaultSession
                 [] OTHER -> FALSE

\* C30: add_documents_to_session(sid, info) sets documents_uploaded to true for
\* sid, creating the session with the default fields if absent, and leaves the
\* session's history and previous_agent unchanged; the flag stays true across
\* all later process_query calls until clear_session(sid), after which the next
\* access sees a fresh session: empty history, documents_uploaded false,
\* previous_agent null.
C30_DocumentsFlagPersists ==
    /\ [](DocumentsAdded /\ SessionCleared)
    /\ [][FlagKept /\ FreshOnAccess]_vars

\* a query completed on a session that had its documents added earlier and
\* already had history: the flag is still set
C30_FlagSurvivesQuery ==
    /\ last.op = "process_query"
    /\ last.outcome = "returned"
    /\ last.status = "success"
    /\ last.before.documents_uploaded
    /\ last.sid \in DOMAIN session_context
    /\ session_context[last.sid].documents_uploaded
    /\ Len(session_context[last.sid].history) >= 1

-----------------------------------------------------------------------------
(* The specifications *)

Init ==
    /\ session_context = [x \in {} |-> DefaultSession]
    /\ coordinator_agent = FALSE
    /\ agents = EmptyRegistry
    /\ clock = 0
    /\ last = NoOp
    /\ ok_log = [sid \in SessionIds |-> <<>>]
    /\ req = ReqIdle
    /\ fb = FbIdle
    /\ am = AmIdle
    /\ tasks = NoTasks
    /\ fn = FnIdle

Next ==
    \/ initialize
    \/ \E sid \in SessionIds, query \in Queries, context \in CallerContexts,
          env \in Environments : process_query(sid, query, context, env)
    \/ \E sid \in SessionIds : add_documents_to_session(sid, "info")
    \/ \E sid \in SessionIds : get_session_history(sid)
    \/ \E sid \in SessionIds : clear_session(sid)

\* the orchestrator and its sessions
Spec == Init /\ [][Next]_vars

\* one request through the document pipeline
SpecPdf == Init /\ [][NextPdf]_vars

InitBank ==
    /\ session_context = [x \in {} |-> DefaultSession]
    /\ coordinator_agent = FALSE
    /\ agents = EmptyRegistry
    /\ clock = 0
    /\ last = NoOp
    /\ ok_log = [sid \in SessionIds |-> <<>>]
    /\ req = ReqIdle
    /\ am = AmIdle
    /\ tasks = NoTasks
    /\ fn = FnIdle
    /\ fb \in { Bank("input", prompt, pdf_contents, <<>>) :
                   prompt \in BankPrompts, pdf_contents \in BankDocLists }

\* get_fallback_questions applied to every input
SpecBank == InitBank /\ [][NextBank]_vars

InitRoute ==
    /\ session_context = [x \in {} |-> DefaultSession]
    /\ coordinator_agent = FALSE
    /\ agents = EmptyRegistry
    /\ clock = 0
    /\ last = NoOp
    /\ ok_log = [sid \in SessionIds |-> <<>>]
    /\ req = ReqIdle
    /\ fb = FbIdle
    /\ am = AmIdle
    /\ tasks = NoTasks
    /\ fn \in { Routing("input", query, ctx, agent, response, modelFails, NoRoute, NoRoute, 0) :
                   query \in QueryTexts, ctx \in RouteContexts, agent \in BOOLEAN,
                   response \in RouteResponses, modelFails \in BOOLEAN }

\* route_query applied to every input
SpecRoute == InitRoute /\ [][NextRoute]_vars

InitPipeline ==
    /\ session_context = [x \in {} |-> DefaultSession]
    /\ coordinator_agent = FALSE
    /\ agents = EmptyRegistry
    /\ clock = 0
    /\ last = NoOp
    /\ ok_log = [sid \in SessionIds |-> <<>>]
    /\ req = ReqIdle
    /\ fb = FbIdle
    /\ am = AmIdle
    /\ tasks = NoTasks
    /\ fn \in { Piping("pipeline", registry, pipeline, query, fails, has,
                        PipelineStart(has), NoResult) :
                   registry \in Registries, pipeline \in Pipelines,
                   query \in {q_math, q_hello}, fails \in BOOLEAN, has \in PipelineKeys }

SpecPipeline == InitPipeline /\ [][NextPipeline]_vars

InitDiff ==
    /\ session_context = [x \in {} |-> DefaultSession]
    /\ coordinator_agent = FALSE
    /\ agents = EmptyRegistry
    /\ clock = 0
    /\ last = NoOp
    /\ ok_log = [sid \in SessionIds |-> <<>>]
    /\ req = ReqIdle
    /\ fb = FbIdle
    /\ am = AmIdle
    /\ tasks = NoTasks
    /\ fn \in { Diffing("records", extractions, <<>>) :
                   extractions \in SeqsUpTo(Records, MaxRecords) }

SpecDiff == InitDiff /\ [][NextDiff]_vars

InitParse ==
    /\ session_context = [x \in {} |-> DefaultSession]
    /\ coordinator_agent = FALSE
    /\ agents = EmptyRegistry
    /\ clock = 0
    /\ last = NoOp
    /\ ok_log = [sid \in SessionIds |-> <<>>]
    /\ req = ReqIdle
    /\ fb = FbIdle
    /\ am = AmIdle
    /\ tasks = NoTasks
    /\ fn \in { Parsing("response", response, EmptyObject) : response \in Responses }

SpecParse == InitParse /\ [][NextParse]_vars

InitAgent ==
    /\ session_context = [x \in {} |-> DefaultSession]
    /\ coordinator_agent = FALSE
    /\ agents = EmptyRegistry
    /\ clock = 0
    /\ last = NoOp
    /\ ok_log = [sid \in SessionIds |-> <<>>]
    /\ req = ReqIdle
    /\ fb = FbIdle
    /\ fn = FnIdle
    /\ am \in {AmStart, AmReady}
    /\ tasks = NoTasks

SpecAgent == InitAgent /\ [][NextAgent]_vars

InitTasks ==
    /\ session_context = [x \in {} |-> DefaultSession]
    /\ coordinator_agent = TRUE
    /\ agents = RegisteredAgents
    /\ clock = 1
    /\ last = NoOp
    /\ ok_log = [sid \in SessionIds |-> <<>>]
    /\ req = ReqIdle
    /\ fb = FbIdle
    /\ fn = FnIdle
    /\ am = AmIdle
    /\ tasks = [t \in TaskIds |-> NoTask]

\* overlapping calls on the orchestrator
SpecTasks == InitTasks /\ [][NextTasks]_vars

InitUpload ==
    /\ session_context = [x \in {} |-> DefaultSession]
    /\ coordinator_agent = FALSE
    /\ agents = EmptyRegistry
    /\ clock = 0
    /\ last = NoOp
    /\ ok_log = [sid \in SessionIds |-> <<>>]
    /\ req = ReqIdle
    /\ fb = FbIdle
    /\ am = AmIdle
    /\ tasks = NoTasks
    /\ fn \in { Uploading("files", files, process_file_upload(<<>>), <<>>) :
                   files \in SeqsUpTo(UploadedFiles, MaxFiles) }

SpecUpload == InitUpload /\ [][NextUpload]_vars

InitError ==
    /\ session_context = [x \in {} |-> DefaultSession]
    /\ coordinator_agent = FALSE
    /\ agents = EmptyRegistry
    /\ clock = 0
    /\ last = NoOp
    /\ ok_log = [sid \in SessionIds |-> <<>>]
    /\ req = ReqIdle
    /\ fb = FbIdle
    /\ am = AmIdle
    /\ tasks = NoTasks
    /\ fn \in { Handling("error", error_str, Message(None, <<>>)) : error_str \in ErrorTexts }

SpecError == InitError /\ [][NextError]_vars

====
